---- MODULE Spec2Model ----
(***************************************************************************)
(* mcp-messagebird: the request/response translation layer.                *)
(*                                                                         *)
(* One tool invocation is modelled at a time: the host calls a registered  *)
(* handler with schema-validated arguments, the handler builds a request   *)
(* and awaits apiRequest (src/client.ts), the network answers with an HTTP *)
(* response or fails, and the handler returns a tool result to the host.   *)
(*                                                                         *)
(* JavaScript strings are TLA+ strings.  An optional argument that was not *)
(* supplied is a field missing from the argument record.  JSON values are  *)
(* tagged records [t |-> tag, v |-> payload].                              *)
(***************************************************************************)
EXTENDS Integers, Sequences, FiniteSets, TLC

VARIABLES
    env,        \* <<>> or <<v>>: process.env.MESSAGEBIRD_API_KEY
    proc,       \* "starting" | "loaded" | "registered" | "running" | "exited"
    exitCode,   \* <<>> or <<c>>: the status the process exited with
    registered, \* names of the tools registered on the server
    API_KEY,    \* auth.ts: the credential loaded once at module load
    pc,         \* "idle" | "fetching" | "returned": position of the invocation
    tool,       \* name of the tool being invoked ("" when idle)
    args,       \* the validated arguments the handler was called with
    requests,   \* sequence of fetch() calls issued by this invocation
    response,   \* <<>> or <<r>>: the HTTP response fetch resolved with
    bodyReads,  \* number of response.json() calls made by this invocation
    raised,     \* <<>> or <<e>>: what apiRequest threw inside the handler
    result,     \* <<>> or <<r>>: the ToolResult the handler returned
    escaped,    \* TRUE iff an exception left the handler
    frames      \* concurrent invocations: one activation record per slot

vars == <<env, proc, exitCode, registered, API_KEY, pc, tool, args, requests,
          response, bodyReads, raised, result, escaped, frames>>

-----------------------------------------------------------------------------
(* Options: an absent JavaScript value (undefined) is <<>>, a present one  *)
(* is <<v>>.                                                               *)

None == <<>>

Some(v) == <<v>>

\* Destructuring an optional argument: undefined when it was not supplied.
Arg(a, f) == IF f \in DOMAIN a THEN Some(a[f]) ELSE None

\* JavaScript truthiness of an optional string argument: `if (x)`.
Given(a, f) == f \in DOMAIN a /\ a[f] # ""

\* { ...base, [f]: v } for records with string keys.
With(rec, f, v) ==
    [k \in DOMAIN rec \cup {f} |-> IF k = f THEN v ELSE rec[k]]

\* `delete rec[f]`.
Without(rec, f) == [k \in DOMAIN rec \ {f} |-> rec[k]]

EmptyObject == [k \in {} |-> TRUE]

-----------------------------------------------------------------------------
(* JSON and JavaScript values.                                             *)

JUndefined == [t |-> "undefined"]

JNull == [t |-> "null"]

JBool(b) == [t |-> "bool", v |-> b]

JNum(n) == [t |-> "num", v |-> n]

JStr(s) == [t |-> "str", v |-> s]

JArr(items) == [t |-> "arr", v |-> items]

\* keys is the insertion order of the properties, props maps key to value.
JObj(keys, props) == [t |-> "obj", k |-> keys, v |-> props]

JEmptyObj == JObj(<<>>, EmptyObject)

\* x.key on a value that is neither null nor undefined.
Prop(x, key) ==
    IF x.t = "obj" /\ key \in DOMAIN x.v THEN x.v[key] ELSE JUndefined

\* x == null || x === undefined
Nullish(x) == x.t \in {"null", "undefined"}

\* x?.[0]
OptFirst(x) ==
    CASE Nullish(x) -> JUndefined
      [] x.t = "arr" -> IF Len(x.v) > 0 THEN x.v[1] ELSE JUndefined
      [] x.t = "str" -> IF Len(x.v) > 0 THEN JStr(SubSeq(x.v, 1, 1))
                                        ELSE JUndefined
      [] x.t = "obj" -> Prop(x, "0")
      [] OTHER -> JUndefined

\* x?.key
OptProp(x, key) == IF Nullish(x) THEN JUndefined ELSE Prop(x, key)

\* ToBoolean(x)
Truthy(x) ==
    CASE x.t \in {"undefined", "null"} -> FALSE
      [] x.t = "bool" -> x.v
      [] x.t = "num" -> x.v # 0
      [] x.t = "str" -> x.v # ""
      [] OTHER -> TRUE

RECURSIVE JoinStrings(_, _)
JoinStrings(strs, sep) ==
    IF strs = <<>> THEN ""
    ELSE IF Len(strs) = 1 THEN strs[1]
    ELSE strs[1] \o sep \o JoinStrings(Tail(strs), sep)

\* `${x}`: string conversion inside a template literal.
RECURSIVE JsToString(_)
JsToString(x) ==
    CASE x.t = "undefined" -> "undefined"
      [] x.t = "null" -> "null"
      [] x.t = "bool" -> IF x.v THEN "true" ELSE "false"
      [] x.t = "num" -> ToString(x.v)
      [] x.t = "str" -> x.v
      [] x.t = "arr" ->
            JoinStrings([i \in 1..Len(x.v) |->
                            IF Nullish(x.v[i]) THEN "" ELSE JsToString(x.v[i])],
                        ",")
      [] OTHER -> "[object Object]"

\* JSON string escaping of the characters the model's strings can hold.
RECURSIVE JsonEscape(_)
JsonEscape(s) ==
    IF s = "" THEN ""
    ELSE LET c == SubSeq(s, 1, 1)
             rest == JsonEscape(SubSeq(s, 2, Len(s)))
         IN  CASE c = "\"" -> "\\\"" \o rest
               [] c = "\\" -> "\\\\" \o rest
               [] c = "\n" -> "\\n" \o rest
               [] OTHER -> c \o rest

RECURSIVE Indent(_)
Indent(depth) == IF depth = 0 THEN "" ELSE "  " \o Indent(depth - 1)

\* JSON.stringify(x, null, 2) at nesting depth `depth`.
RECURSIVE Pretty(_, _)
Pretty(x, depth) ==
    CASE x.t = "null" -> "null"
      [] x.t = "bool" -> IF x.v THEN "true" ELSE "false"
      [] x.t = "num" -> ToString(x.v)
      [] x.t = "str" -> "\"" \o JsonEscape(x.v) \o "\""
      [] x.t = "arr" ->
            IF x.v = <<>> THEN "[]"
            ELSE "[\n"
                 \o JoinStrings([i \in 1..Len(x.v) |->
                        Indent(depth + 1) \o Pretty(x.v[i], depth + 1)], ",\n")
                 \o "\n" \o Indent(depth) \o "]"
      [] x.t = "obj" ->
            IF x.k = <<>> THEN "{}"
            ELSE "{\n"
                 \o JoinStrings([i \in 1..Len(x.k) |->
                        Indent(depth + 1) \o "\"" \o JsonEscape(x.k[i])
                        \o "\": " \o Pretty(x.v[x.k[i]], depth + 1)], ",\n")
                 \o "\n" \o Indent(depth) \o "}"

JsonStringifyPretty(x) == Pretty(x, 0)

-----------------------------------------------------------------------------
(* auth.ts                                                                 *)

CONVERSATIONS_BASE_URL == "https://conversations.messagebird.com/v1"

INTEGRATIONS_BASE_URL == "https://integrations.messagebird.com"

REST_BASE_URL == "https://rest.messagebird.com"

Exit(code) == [exit |-> TRUE, code |-> code]

Loaded(value) == [exit |-> FALSE, value |-> value]

\* getRequiredEnv that returns whatever the environment holds.
getRequiredEnv_NoExit(value) ==
    IF value = None THEN Loaded("undefined") ELSE Loaded(value[1])

\* auth.ts 1-12: value is process.env[name], <<>> when the variable is unset.
getRequiredEnv(value) ==
    IF value = None \/ value[1] = "" THEN Exit(1) ELSE Loaded(value[1])

-----------------------------------------------------------------------------
(* client.ts                                                               *)

MessageBirdApiError(status, message) ==
    [name |-> "MessageBirdApiError", status |-> status, message |-> message]

\* The built-in errors the runtime raises (no status field).
TypeError(message) == [name |-> "TypeError", message |-> message]

SyntaxError(message) == [name |-> "SyntaxError", message |-> message]

getBaseUrl(target) ==
    CASE target = "conversations" -> CONVERSATIONS_BASE_URL
      [] target = "integrations" -> INTEGRATIONS_BASE_URL
      [] target = "rest" -> REST_BASE_URL

\* application/x-www-form-urlencoded byte serialisation of one character,
\* as URLSearchParams.toString() applies it.
FormEncodeChar(c) ==
    CASE c = " " -> "+"
      [] c = "&" -> "%26"
      [] c = "=" -> "%3D"
      [] c = "+" -> "%2B"
      [] c = "?" -> "%3F"
      [] c = "%" -> "%25"
      [] c = "/" -> "%2F"
      [] c = ":" -> "%3A"
      [] OTHER -> c

RECURSIVE FormEncode(_)
FormEncode(s) ==
    IF s = "" THEN ""
    ELSE FormEncodeChar(SubSeq(s, 1, 1)) \o FormEncode(SubSeq(s, 2, Len(s)))

\* URLSearchParams.prototype.set: replace the entry of that name, or append.
ParamsSet(params, key, value) ==
    IF \E i \in 1..Len(params) : params[i].key = key
    THEN [i \in 1..Len(params) |->
            IF params[i].key = key THEN [key |-> key, value |-> value]
                                   ELSE params[i]]
    ELSE Append(params, [key |-> key, value |-> value])

\* The loop when it filters undefined only and lets "" through.
RECURSIVE CollectParams_KeepsEmpty(_, _)
CollectParams_KeepsEmpty(entries, params) ==
    IF entries = <<>> THEN params
    ELSE LET e == Head(entries)
         IN  CollectParams_KeepsEmpty(Tail(entries),
                IF e.value # None
                THEN ParamsSet(params, e.key, e.value[1])
                ELSE params)

\* The loop over Object.entries(queryParams): entries is a sequence of
\* [key, value] with value an option (<<>> is undefined).
RECURSIVE CollectParams(_, _)
CollectParams(entries, params) ==
    IF entries = <<>> THEN params
    ELSE LET e == Head(entries)
         IN  CollectParams(Tail(entries),
                IF e.value # None /\ e.value[1] # ""
                THEN ParamsSet(params, e.key, e.value[1])
                ELSE params)

\* URLSearchParams.prototype.toString
ParamsToString(params) ==
    JoinStrings([i \in 1..Len(params) |->
                    FormEncode(params[i].key) \o "=" \o FormEncode(params[i].value)],
                "&")

\* client.ts 33-44.  queryParams is <<>> (argument omitted) or <<entries>>.
BuildUrl(endpoint, queryParams, target) ==
    LET base == getBaseUrl(target) \o endpoint
    IN  IF queryParams # None
        THEN LET qs == ParamsToString(CollectParams(queryParams[1], <<>>))
             IN  IF qs # "" THEN base \o "?" \o qs ELSE base
        ELSE base

\* fetch() options when the Content-Type header is added only for a body that
\* has at least one property.
FetchCall_ContentTypeIfKeys(key, endpoint, method, body, queryParams, target) ==
    [url |-> BuildUrl(endpoint, queryParams, target),
     method |-> method,
     headers |->
        IF body # None /\ DOMAIN body[1] # {}
        THEN [Authorization |-> "AccessKey " \o key,
              Accept |-> "application/json",
              ContentType |-> "application/json"]
        ELSE [Authorization |-> "AccessKey " \o key,
              Accept |-> "application/json"],
     body |-> IF body # None THEN Some([json |-> body[1]]) ELSE None]

\* client.ts 46-54: the arguments of fetch().  body is <<>> or <<object>>;
\* an object, even an empty one, is truthy.
FetchCall(key, endpoint, method, body, queryParams, target) ==
    [url |-> BuildUrl(endpoint, queryParams, target),
     method |-> method,
     headers |->
        IF body # None
        THEN [Authorization |-> "AccessKey " \o key,
              Accept |-> "application/json",
              ContentType |-> "application/json"]
        ELSE [Authorization |-> "AccessKey " \o key,
              Accept |-> "application/json"],
     body |-> IF body # None THEN Some([json |-> body[1]]) ELSE None]

\* Response.ok
ResponseOk(status) == status >= 200 /\ status <= 299

\* JSON.parse / Response.json(): the texts the model parses (response bodies
\* and the components argument of update_template), and what parsing gives.
JsonParse(text) ==
    CASE text = "null" -> [ok |-> TRUE, value |-> JNull]
      [] text = "[]" -> [ok |-> TRUE, value |-> JArr(<<>>)]
      [] text = "[{\"type\":\"BODY\",\"text\":\"Hi\"}]" ->
            [ok |-> TRUE,
             value |-> JArr(<<JObj(<<"type", "text">>,
                            [type |-> JStr("BODY"), text |-> JStr("Hi")])>>)]
      [] text = "\"down\"" -> [ok |-> TRUE, value |-> JStr("down")]
      [] text = "{}" -> [ok |-> TRUE, value |-> JEmptyObj]
      [] text = "{\"id\":\"abc\"}" ->
            [ok |-> TRUE, value |-> JObj(<<"id">>, [id |-> JStr("abc")])]
      [] text = "{\"errors\":[]}" ->
            [ok |-> TRUE, value |-> JObj(<<"errors">>, [errors |-> JArr(<<>>)])]
      [] text = "{\"errors\":[{\"code\":2}]}" ->
            [ok |-> TRUE,
             value |-> JObj(<<"errors">>,
                [errors |-> JArr(<<JObj(<<"code">>, [code |-> JNum(2)])>>)])]
      [] text = "{\"errors\":[{\"description\":\"Invalid token\"}]}" ->
            [ok |-> TRUE,
             value |-> JObj(<<"errors">>,
                [errors |-> JArr(<<JObj(<<"description">>,
                    [description |-> JStr("Invalid token")])>>)])]
      [] text = "{\"errors\":[{\"description\":\"\"}]}" ->
            [ok |-> TRUE,
             value |-> JObj(<<"errors">>,
                [errors |-> JArr(<<JObj(<<"description">>,
                    [description |-> JStr("")])>>)])]
      [] text = "" ->
            [ok |-> FALSE, error |-> SyntaxError("Unexpected end of JSON input")]
      [] OTHER ->
            [ok |-> FALSE,
             error |-> SyntaxError("Unexpected token < in JSON at position 0")]

\* Outcomes of the part of apiRequest that runs after fetch() resolved:
\* a returned value or a thrown error, and how often the body was read.
Returned(value, reads) == [threw |-> FALSE, value |-> value, reads |-> reads]

Thrown(error, reads) == [threw |-> TRUE, error |-> error, reads |-> reads]

\* client.ts 60-78: the branch for a response that is not ok.
ErrorBranch(resp) ==
    LET parsed == JsonParse(resp.body)
        error == IF parsed.ok THEN parsed.value ELSE JEmptyObj
    IN  IF Nullish(error)
        THEN \* (error as Record).errors on null
             Thrown(TypeError("Cannot read properties of null (reading 'errors')"), 1)
        ELSE LET errors == Prop(error, "errors")
                 description == OptProp(OptFirst(errors), "description")
                 msg == IF Truthy(description) THEN JsToString(description)
                                               ELSE resp.statusText
             IN  IF resp.status = 429
                 THEN Thrown(MessageBirdApiError(429,
                                "Rate limit exceeded. Try again in a moment."), 1)
                 ELSE Thrown(MessageBirdApiError(resp.status,
                                "MessageBird API error (" \o ToString(resp.status)
                                \o "): " \o msg), 1)

\* apiRequest without the early return for 204: the body of a 204 is parsed
\* like that of any other ok response.
Settle_No204Branch(resp) ==
    IF ~ResponseOk(resp.status) THEN ErrorBranch(resp)
    ELSE LET parsed == JsonParse(resp.body)
         IN  IF parsed.ok THEN Returned(parsed.value, 1)
                          ELSE Thrown(parsed.error, 1)

\* client.ts 56-80: apiRequest from the moment fetch() resolved with resp.
Settle(resp) ==
    IF resp.status = 204 THEN Returned(JEmptyObj, 0)
    ELSE IF ~ResponseOk(resp.status) THEN ErrorBranch(resp)
    ELSE LET parsed == JsonParse(resp.body)
         IN  IF parsed.ok THEN Returned(parsed.value, 1)
                          ELSE Thrown(parsed.error, 1)

toolResult(data) ==
    [content |-> <<[type |-> "text", text |-> JsonStringifyPretty(data)]>>]

toolError(message) ==
    [isError |-> TRUE, content |-> <<[type |-> "text", text |-> message]>>]

-----------------------------------------------------------------------------
(* What a handler does up to its first await: either it returns at once    *)
(* (Early) or it calls apiRequest (Call).  Omitted trailing arguments of   *)
(* apiRequest take the defaults of its signature (client.ts 26-32).        *)

Early(res) == [early |-> TRUE, result |-> res]

Call(endpoint, method, body, queryParams, target) ==
    [early |-> FALSE, endpoint |-> endpoint, method |-> method, body |-> body,
     queryParams |-> queryParams, target |-> target]

DefaultMethod == "GET"

DefaultTarget == "conversations"

\* An object literal { k1: a.f1, k2: a.f2, ... } used as queryParams: every
\* key is present, with value undefined when the argument was not supplied.
Entry(key, value) == [key |-> key, value |-> value]

-----------------------------------------------------------------------------
(* tools/messaging.ts                                                      *)

\* send_text when the delivery-report URL is copied whenever the argument is
\* present, the empty string included.
send_text_ReportUrlByPresence(a) ==
    LET content == IF "disable_url_preview" \in DOMAIN a
                   THEN [text |-> a.text,
                         disableUrlPreview |-> a.disable_url_preview]
                   ELSE [text |-> a.text]
        body == [to |-> a.to, from |-> a.from, type |-> "text",
                 content |-> content]
    IN  Call("/send", "POST",
             Some(IF "report_url" \in DOMAIN a
                  THEN With(body, "reportUrl", a.report_url) ELSE body),
             None, DefaultTarget)

send_text(a) ==
    LET content == IF "disable_url_preview" \in DOMAIN a
                   THEN [text |-> a.text,
                         disableUrlPreview |-> a.disable_url_preview]
                   ELSE [text |-> a.text]
        body == [to |-> a.to, from |-> a.from, type |-> "text",
                 content |-> content]
    IN  Call("/send", "POST",
             Some(IF Given(a, "report_url")
                  THEN With(body, "reportUrl", a.report_url) ELSE body),
             None, DefaultTarget)

\* The media object when the caption is copied for every media type.
MediaContent_CaptionAlways(media_type, media_url, caption) ==
    IF caption # None /\ caption[1] # ""
    THEN [url |-> media_url, caption |-> caption[1]]
    ELSE [url |-> media_url]

\* messaging.ts 79-82
MediaContent(media_type, media_url, caption) ==
    IF caption # None /\ caption[1] # "" /\ media_type # "audio"
    THEN [url |-> media_url, caption |-> caption[1]]
    ELSE [url |-> media_url]

send_media(a) ==
    LET mediaContent == MediaContent(a.media_type, a.media_url, Arg(a, "caption"))
    IN  Call("/send", "POST",
             Some([to |-> a.to, from |-> a.from, type |-> a.media_type,
                   content |-> [k \in {a.media_type} |-> mediaContent]]),
             None, DefaultTarget)

send_location(a) ==
    LET l0 == [latitude |-> a.latitude, longitude |-> a.longitude]
        l1 == IF Given(a, "name") THEN With(l0, "name", a.name) ELSE l0
        location == IF Given(a, "address") THEN With(l1, "address", a.address)
                                           ELSE l1
    IN  Call("/send", "POST",
             Some([to |-> a.to, from |-> a.from, type |-> "location",
                   content |-> [location |-> location]]),
             None, DefaultTarget)

\* parameters is <<>> (undefined) or <<list>>: `parameters && parameters.length > 0`
HasParameters(parameters) == parameters # None /\ Len(parameters[1]) > 0

\* The components array when the document URL is looked at first and the
\* image URL last.
HsmComponents_DocumentFirst(parameters, image, video, document, suffix) ==
    LET header ==
            IF document # None /\ document[1] # ""
            THEN <<[type |-> "header",
                    parameters |-> <<[type |-> "document",
                                      document |-> [url |-> document[1]]]>>]>>
            ELSE IF video # None /\ video[1] # ""
            THEN <<[type |-> "header",
                    parameters |-> <<[type |-> "video",
                                      video |-> [url |-> video[1]]]>>]>>
            ELSE IF image # None /\ image[1] # ""
            THEN <<[type |-> "header",
                    parameters |-> <<[type |-> "image",
                                      image |-> [url |-> image[1]]]>>]>>
            ELSE <<>>
        body ==
            IF HasParameters(parameters) /\ Len(header) > 0
            THEN <<[type |-> "body",
                    parameters |-> [i \in 1..Len(parameters[1]) |->
                        [type |-> "text", text |-> parameters[1][i]]]]>>
            ELSE <<>>
        button ==
            IF suffix # None /\ suffix[1] # ""
            THEN <<[type |-> "button", sub_type |-> "url",
                    parameters |-> <<[type |-> "text", text |-> suffix[1]]>>]>>
            ELSE <<>>
    IN  header \o body \o button

\* messaging.ts 206-240: the components array.  Each URL is an option.
HsmComponents(parameters, image, video, document, suffix) ==
    LET header ==
            IF image # None /\ image[1] # ""
            THEN <<[type |-> "header",
                    parameters |-> <<[type |-> "image",
                                      image |-> [url |-> image[1]]]>>]>>
            ELSE IF video # None /\ video[1] # ""
            THEN <<[type |-> "header",
                    parameters |-> <<[type |-> "video",
                                      video |-> [url |-> video[1]]]>>]>>
            ELSE IF document # None /\ document[1] # ""
            THEN <<[type |-> "header",
                    parameters |-> <<[type |-> "document",
                                      document |-> [url |-> document[1]]]>>]>>
            ELSE <<>>
        body ==
            IF HasParameters(parameters) /\ Len(header) > 0
            THEN <<[type |-> "body",
                    parameters |-> [i \in 1..Len(parameters[1]) |->
                        [type |-> "text", text |-> parameters[1][i]]]]>>
            ELSE <<>>
        button ==
            IF suffix # None /\ suffix[1] # ""
            THEN <<[type |-> "button", sub_type |-> "url",
                    parameters |-> <<[type |-> "text", text |-> suffix[1]]>>]>>
            ELSE <<>>
    IN  header \o body \o button

\* The hsm object when params is set for every non-empty parameters list
\* and never removed.
BuildHsm_StaleParams(a) ==
    LET parameters == Arg(a, "parameters")
        hsm0 == [namespace |-> a.namespace, templateName |-> a.template_name,
                 language |-> [policy |-> "deterministic",
                               code |-> a.language_code]]
        hsm1 == IF HasParameters(parameters)
                THEN With(hsm0, "params",
                          [i \in 1..Len(parameters[1]) |->
                              [default |-> parameters[1][i]]])
                ELSE hsm0
        components == HsmComponents(parameters, Arg(a, "header_image_url"),
                        Arg(a, "header_video_url"),
                        Arg(a, "header_document_url"),
                        Arg(a, "button_url_suffix"))
    IN  IF Len(components) > 0 THEN With(hsm1, "components", components)
                               ELSE hsm1

\* messaging.ts 194-248: the hsm object.
BuildHsm(a) ==
    LET parameters == Arg(a, "parameters")
        image == Arg(a, "header_image_url")
        video == Arg(a, "header_video_url")
        document == Arg(a, "header_document_url")
        suffix == Arg(a, "button_url_suffix")
        hsm0 == [namespace |-> a.namespace, templateName |-> a.template_name,
                 language |-> [policy |-> "deterministic",
                               code |-> a.language_code]]
        hsm1 == IF /\ HasParameters(parameters)
                   /\ ~Given(a, "header_image_url")
                   /\ ~Given(a, "header_video_url")
                   /\ ~Given(a, "header_document_url")
                   /\ ~Given(a, "button_url_suffix")
                THEN With(hsm0, "params",
                          [i \in 1..Len(parameters[1]) |->
                              [default |-> parameters[1][i]]])
                ELSE hsm0
        components == HsmComponents(parameters, image, video, document, suffix)
    IN  IF Len(components) > 0
        THEN LET hsm2 == With(hsm1, "components", components)
             IN  IF HasParameters(parameters) THEN Without(hsm2, "params")
                                              ELSE hsm2
        ELSE hsm1

send_template(a) ==
    Call("/send", "POST",
         Some([to |-> a.to, from |-> a.from, type |-> "hsm",
               content |-> [hsm |-> BuildHsm(a)]]),
         None, DefaultTarget)

send_interactive_buttons(a) ==
    LET i0 == [type |-> "button", body |-> [text |-> a.body_text],
               action |-> [buttons |-> [i \in 1..Len(a.buttons) |->
                    [id |-> a.buttons[i].id, type |-> "reply",
                     title |-> a.buttons[i].title]]]]
        i1 == IF Given(a, "header_text")
              THEN With(i0, "header", [type |-> "text", text |-> a.header_text])
              ELSE IF Given(a, "header_image_url")
              THEN With(i0, "header",
                        [type |-> "image", image |-> [url |-> a.header_image_url]])
              ELSE i0
        interactive == IF Given(a, "footer_text")
                       THEN With(i1, "footer", [text |-> a.footer_text]) ELSE i1
    IN  Call("/send", "POST",
             Some([to |-> a.to, from |-> a.from, type |-> "interactive",
                   content |-> [interactive |-> interactive]]),
             None, DefaultTarget)

send_interactive_list(a) ==
    LET i0 == [type |-> "list", body |-> [text |-> a.body_text],
               action |-> [button |-> a.button_label, sections |-> a.sections]]
        i1 == IF Given(a, "header_text")
              THEN With(i0, "header", [type |-> "text", text |-> a.header_text])
              ELSE i0
        interactive == IF Given(a, "footer_text")
                       THEN With(i1, "footer", [text |-> a.footer_text]) ELSE i1
    IN  Call("/send", "POST",
             Some([to |-> a.to, from |-> a.from, type |-> "interactive",
                   content |-> [interactive |-> interactive]]),
             None, DefaultTarget)

-----------------------------------------------------------------------------
(* tools/conversations.ts                                                  *)

list_conversations(a) ==
    Call("/conversations", "GET", None,
         Some(<<Entry("offset", Arg(a, "offset")),
                Entry("limit", Arg(a, "limit"))>>),
         DefaultTarget)

get_conversation(a) ==
    Call("/conversations/" \o a.conversation_id, DefaultMethod, None, None,
         DefaultTarget)

update_conversation(a) ==
    Call("/conversations/" \o a.conversation_id, "PATCH",
         Some([status |-> a.status]), None, DefaultTarget)

list_conversation_messages(a) ==
    Call("/conversations/" \o a.conversation_id \o "/messages", "GET", None,
         Some(<<Entry("offset", Arg(a, "offset")),
                Entry("limit", Arg(a, "limit"))>>),
         DefaultTarget)

get_message(a) ==
    Call("/conversations/" \o a.conversation_id \o "/messages/" \o a.message_id,
         DefaultMethod, None, None, DefaultTarget)

\* conversations.ts 199-217: the switch on type.  A property assigned an
\* argument that may be undefined holds an option.
ReplyContent(a) ==
    CASE a.type = "text" ->
            Some([text |-> IF Given(a, "text") THEN a.text ELSE ""])
      [] a.type \in {"image", "video", "audio", "file"} ->
            LET media == IF Given(a, "caption") /\ a.type # "audio"
                         THEN [url |-> Arg(a, "media_url"),
                               caption |-> a.caption]
                         ELSE [url |-> Arg(a, "media_url")]
            IN  Some([k \in {a.type} |-> media])
      [] a.type = "location" ->
            Some([location |-> [latitude |-> Arg(a, "latitude"),
                                longitude |-> Arg(a, "longitude")]])
      [] OTHER -> None

\* reply_to_conversation when an unknown type falls out of the switch and
\* the message is sent with an empty content.
reply_to_conversation_SendsUnknown(a) ==
    LET content == ReplyContent(a)
        body == [type |-> a.type,
                 content |-> IF content = None THEN EmptyObject ELSE content[1]]
    IN  Call("/conversations/" \o a.conversation_id \o "/messages",
             "POST",
             Some(IF Given(a, "channel_id")
                  THEN With(body, "channelId", a.channel_id) ELSE body),
             None, DefaultTarget)

reply_to_conversation(a) ==
    LET content == ReplyContent(a)
    IN  IF content = None
        THEN Early(toolError("Unsupported message type: " \o a.type))
        ELSE LET body == [type |-> a.type, content |-> content[1]]
             IN  Call("/conversations/" \o a.conversation_id \o "/messages",
                      "POST",
                      Some(IF Given(a, "channel_id")
                           THEN With(body, "channelId", a.channel_id) ELSE body),
                      None, DefaultTarget)

list_messages(a) ==
    Call("/messages", "GET", None,
         Some(<<Entry("offset", Arg(a, "offset")),
                Entry("limit", Arg(a, "limit"))>>),
         DefaultTarget)

-----------------------------------------------------------------------------
(* tools/templates.js                                                      *)

StartsWith(s, p) == Len(s) >= Len(p) /\ SubSeq(s, 1, Len(p)) = p

\* String.prototype.includes
RECURSIVE Includes(_, _)
Includes(s, sub) ==
    IF Len(s) < Len(sub) THEN FALSE
    ELSE StartsWith(s, sub) \/ Includes(SubSeq(s, 2, Len(s)), sub)

IsDigit(c) == c \in {"0", "1", "2", "3", "4", "5", "6", "7", "8", "9"}

\* length of the run of digits s starts with
RECURSIVE DigitRun(_)
DigitRun(s) ==
    IF s # "" /\ IsDigit(SubSeq(s, 1, 1))
    THEN 1 + DigitRun(SubSeq(s, 2, Len(s))) ELSE 0

\* The replacement without the g flag: only the first match is replaced.
RECURSIVE ReplacePlaceholders_FirstOnly(_)
ReplacePlaceholders_FirstOnly(s) ==
    IF s = "" THEN ""
    ELSE LET n == IF StartsWith(s, "{{") THEN DigitRun(SubSeq(s, 3, Len(s)))
                                         ELSE 0
         IN  IF n > 0 /\ StartsWith(SubSeq(s, 3 + n, Len(s)), "}}")
             THEN "example_value" \o SubSeq(s, 5 + n, Len(s))
             ELSE SubSeq(s, 1, 1)
                    \o ReplacePlaceholders_FirstOnly(SubSeq(s, 2, Len(s)))

\* s.replace(/\{\{\d+\}\}/g, "example_value")
RECURSIVE ReplacePlaceholders(_)
ReplacePlaceholders(s) ==
    IF s = "" THEN ""
    ELSE LET n == IF StartsWith(s, "{{") THEN DigitRun(SubSeq(s, 3, Len(s)))
                                         ELSE 0
         IN  IF n > 0 /\ StartsWith(SubSeq(s, 3 + n, Len(s)), "}}")
             THEN "example_value" \o ReplacePlaceholders(SubSeq(s, 5 + n, Len(s)))
             ELSE SubSeq(s, 1, 1) \o ReplacePlaceholders(SubSeq(s, 2, Len(s)))

list_templates(a) ==
    Call("/v3/platforms/whatsapp/templates", "GET", None,
         Some(<<Entry("offset", Arg(a, "offset")),
                Entry("limit", Arg(a, "limit")),
                Entry("wabaId", Arg(a, "waba_id")),
                Entry("channelId", Arg(a, "channel_id"))>>),
         "integrations")

get_template(a) ==
    Call("/v3/platforms/whatsapp/templates/" \o a.name \o "/" \o a.language,
         "GET", None, None, "integrations")

\* templates.js 112-124
TemplateHeader(a) ==
    IF "header_type" \in DOMAIN a
    THEN LET header == [type |-> "HEADER", format |-> a.header_type]
         IN  IF a.header_type = "TEXT" /\ Given(a, "header_text")
             THEN <<With(header, "text", a.header_text)>>
             ELSE IF Given(a, "header_example_url")
             THEN <<With(header, "example",
                         [header_url |-> <<a.header_example_url>>])>>
             ELSE <<header>>
    ELSE <<>>

\* templates.js 126-133
TemplateBody(a) ==
    LET body == [type |-> "BODY", text |-> a.body_text]
    IN  IF "body_examples" \in DOMAIN a /\ Len(a.body_examples) > 0
        THEN <<With(body, "example", [body_text |-> <<a.body_examples>>])>>
        ELSE <<body>>

\* templates.js 135-137
TemplateFooter(a) ==
    IF Given(a, "footer_text")
    THEN <<[type |-> "FOOTER", text |-> a.footer_text]>> ELSE <<>>

\* The buttons block when button_type alone is enough to emit it.
TemplateButtons_TypeOnly(a) ==
    IF "button_type" \in DOMAIN a
    THEN LET button == [type |-> a.button_type,
                        text |-> IF Given(a, "button_text") THEN a.button_text
                                 ELSE ""]
             filled ==
                IF a.button_type = "PHONE_NUMBER" /\ Given(a, "button_value")
                THEN With(button, "phone_number", a.button_value)
                ELSE IF a.button_type = "URL" /\ Given(a, "button_value")
                THEN LET b1 == With(button, "url", a.button_value)
                     IN  IF Includes(a.button_value, "{{")
                         THEN With(b1, "example",
                                   <<ReplacePlaceholders(a.button_value)>>)
                         ELSE b1
                ELSE button
         IN  <<[type |-> "BUTTONS", buttons |-> <<filled>>]>>
    ELSE <<>>

\* templates.js 139-159
TemplateButtons(a) ==
    IF "button_type" \in DOMAIN a /\ Given(a, "button_text")
    THEN LET button == [type |-> a.button_type, text |-> a.button_text]
             filled ==
                IF a.button_type = "PHONE_NUMBER" /\ Given(a, "button_value")
                THEN With(button, "phone_number", a.button_value)
                ELSE IF a.button_type = "URL" /\ Given(a, "button_value")
                THEN LET b1 == With(button, "url", a.button_value)
                     IN  IF Includes(a.button_value, "{{")
                         THEN With(b1, "example",
                                   <<ReplacePlaceholders(a.button_value)>>)
                         ELSE b1
                ELSE button
         IN  <<[type |-> "BUTTONS", buttons |-> <<filled>>]>>
    ELSE <<>>

\* create_template when the buttons are pushed before the footer.
create_template_ButtonsBeforeFooter(a) ==
    LET components == TemplateHeader(a) \o TemplateBody(a) \o TemplateButtons(a)
                        \o TemplateFooter(a)
        r0 == [name |-> a.name, language |-> a.language,
               category |-> a.category, components |-> components]
        r1 == IF Given(a, "waba_id") THEN With(r0, "wabaId", a.waba_id) ELSE r0
        requestBody == IF "allow_category_change" \in DOMAIN a
                       THEN With(r1, "allowCategoryChange", a.allow_category_change)
                       ELSE r1
    IN  Call("/v2/platforms/whatsapp/templates", "POST", Some(requestBody), None,
             "integrations")

create_template(a) ==
    LET components == TemplateHeader(a) \o TemplateBody(a) \o TemplateFooter(a)
                        \o TemplateButtons(a)
        r0 == [name |-> a.name, language |-> a.language,
               category |-> a.category, components |-> components]
        r1 == IF Given(a, "waba_id") THEN With(r0, "wabaId", a.waba_id) ELSE r0
        requestBody == IF "allow_category_change" \in DOMAIN a
                       THEN With(r1, "allowCategoryChange", a.allow_category_change)
                       ELSE r1
    IN  Call("/v2/platforms/whatsapp/templates", "POST", Some(requestBody), None,
             "integrations")

update_template(a) ==
    LET parsed == JsonParse(a.components)
    IN  IF ~parsed.ok
        THEN Early(toolError("Invalid JSON in components parameter"))
        ELSE LET body == [wabaId |-> a.waba_id, components |-> parsed.value]
             IN  Call("/v2/platforms/whatsapp/templates/" \o a.name \o "/"
                        \o a.language,
                      "PUT",
                      Some(IF Given(a, "category")
                           THEN With(body, "category", a.category) ELSE body),
                      None, "integrations")

delete_template(a) ==
    Call("/v3/platforms/whatsapp/templates/" \o a.name, "DELETE", None, None,
         "integrations")

delete_template_variant(a) ==
    Call("/v3/platforms/whatsapp/templates/" \o a.name \o "/" \o a.language,
         "DELETE", None, None, "integrations")

-----------------------------------------------------------------------------
(* tools/contacts.ts                                                       *)

list_contacts(a) ==
    Call("/contacts", "GET", None,
         Some(<<Entry("offset", Arg(a, "offset")),
                Entry("limit", Arg(a, "limit"))>>),
         "rest")

\* get_contact when a call without any usable identifier is refused.
get_contact_RequiresIdentifier(a) ==
    IF Given(a, "contact_id")
    THEN Call("/contacts/" \o a.contact_id, "GET", None, None, "rest")
    ELSE IF ~Given(a, "msisdn") /\ ~Given(a, "name")
    THEN Early(toolError("Provide contact_id, msisdn or name"))
    ELSE Call("/contacts", "GET", None,
              Some((IF Given(a, "msisdn")
                    THEN <<Entry("msisdn", Some(a.msisdn))>> ELSE <<>>)
                   \o (IF Given(a, "name")
                       THEN <<Entry("name", Some(a.name))>> ELSE <<>>)),
              "rest")

\* The handler without the exact-fetch branch: every lookup is a list query.
get_contact_AlwaysList(a) ==
    Call("/contacts", "GET", None,
         Some((IF Given(a, "msisdn")
               THEN <<Entry("msisdn", Some(a.msisdn))>> ELSE <<>>)
              \o (IF Given(a, "name")
                  THEN <<Entry("name", Some(a.name))>> ELSE <<>>)),
         "rest")

get_contact(a) ==
    IF Given(a, "contact_id")
    THEN Call("/contacts/" \o a.contact_id, "GET", None, None, "rest")
    ELSE Call("/contacts", "GET", None,
              Some((IF Given(a, "msisdn")
                    THEN <<Entry("msisdn", Some(a.msisdn))>> ELSE <<>>)
                   \o (IF Given(a, "name")
                       THEN <<Entry("name", Some(a.name))>> ELSE <<>>)),
              "rest")

\* contacts.ts 116-121 and 156-162: `if (x) body.k = x` for each optional field
RECURSIVE CopyGiven(_, _, _)
CopyGiven(body, a, fields) ==
    IF fields = <<>> THEN body
    ELSE CopyGiven(IF Given(a, fields[1].arg)
                   THEN With(body, fields[1].key, a[fields[1].arg]) ELSE body,
                   a, Tail(fields))

ContactFields ==
    <<[arg |-> "first_name", key |-> "firstName"],
      [arg |-> "last_name", key |-> "lastName"],
      [arg |-> "custom1", key |-> "custom1"],
      [arg |-> "custom2", key |-> "custom2"],
      [arg |-> "custom3", key |-> "custom3"],
      [arg |-> "custom4", key |-> "custom4"]>>

create_contact(a) ==
    Call("/contacts", "POST",
         Some(CopyGiven([msisdn |-> a.msisdn], a, ContactFields)),
         None, "rest")

update_contact(a) ==
    Call("/contacts/" \o a.contact_id, "PATCH",
         Some(CopyGiven(EmptyObject, a,
                        <<[arg |-> "msisdn", key |-> "msisdn"]>> \o ContactFields)),
         None, "rest")

delete_contact(a) ==
    Call("/contacts/" \o a.contact_id, "DELETE", None, None, "rest")

-----------------------------------------------------------------------------
(* The registered tools (the four register*Tools functions).               *)

\* The annotations when update_conversation is registered as read-only.
readOnlyHint_WithUpdate(t) ==
    t \in {"list_conversations", "get_conversation", "update_conversation",
           "list_conversation_messages", "get_message", "list_messages",
           "list_templates", "get_template", "list_contacts", "get_contact"}

\* annotations.readOnlyHint of the tool registered under the name t
readOnlyHint(t) ==
    t \in {"list_conversations", "get_conversation",
           "list_conversation_messages", "get_message", "list_messages",
           "list_templates", "get_template", "list_contacts", "get_contact"}

\* annotations.destructiveHint of the tool registered under the name t
destructiveHint(t) ==
    t \in {"delete_template", "delete_template_variant", "delete_contact"}

Tools ==
    {"send_text", "send_media", "send_location", "send_template",
     "send_interactive_buttons", "send_interactive_list",
     "list_conversations", "get_conversation", "update_conversation",
     "list_conversation_messages", "get_message", "reply_to_conversation",
     "list_messages",
     "list_templates", "get_template", "create_template", "update_template",
     "delete_template", "delete_template_variant",
     "list_contacts", "get_contact", "create_contact", "update_contact",
     "delete_contact"}

\* server.registerTool(name, config, handler): the handler body up to its await
Plan(t, a) ==
    CASE t = "send_text" -> send_text(a)
      [] t = "send_media" -> send_media(a)
      [] t = "send_location" -> send_location(a)
      [] t = "send_template" -> send_template(a)
      [] t = "send_interactive_buttons" -> send_interactive_buttons(a)
      [] t = "send_interactive_list" -> send_interactive_list(a)
      [] t = "list_conversations" -> list_conversations(a)
      [] t = "get_conversation" -> get_conversation(a)
      [] t = "update_conversation" -> update_conversation(a)
      [] t = "list_conversation_messages" -> list_conversation_messages(a)
      [] t = "get_message" -> get_message(a)
      [] t = "reply_to_conversation" -> reply_to_conversation(a)
      [] t = "list_messages" -> list_messages(a)
      [] t = "list_templates" -> list_templates(a)
      [] t = "get_template" -> get_template(a)
      [] t = "create_template" -> create_template(a)
      [] t = "update_template" -> update_template(a)
      [] t = "delete_template" -> delete_template(a)
      [] t = "delete_template_variant" -> delete_template_variant(a)
      [] t = "list_contacts" -> list_contacts(a)
      [] t = "get_contact" -> get_contact(a)
      [] t = "create_contact" -> create_contact(a)
      [] t = "update_contact" -> update_contact(a)
      [] t = "delete_contact" -> delete_contact(a)

\* The static text each handler's catch block puts before the error message.
FailurePrefix(t) ==
    CASE t = "send_text" -> "Failed to send text message: "
      [] t = "send_media" -> "Failed to send media message: "
      [] t = "send_location" -> "Failed to send location: "
      [] t = "send_template" -> "Failed to send template message: "
      [] t = "send_interactive_buttons" -> "Failed to send interactive buttons: "
      [] t = "send_interactive_list" -> "Failed to send interactive list: "
      [] t = "list_conversations" -> "Failed to list conversations: "
      [] t = "get_conversation" -> "Failed to get conversation: "
      [] t = "update_conversation" -> "Failed to update conversation: "
      [] t = "list_conversation_messages" -> "Failed to list messages: "
      [] t = "get_message" -> "Failed to get message: "
      [] t = "reply_to_conversation" -> "Failed to reply to conversation: "
      [] t = "list_messages" -> "Failed to list messages: "
      [] t = "list_templates" -> "Failed to list templates: "
      [] t = "get_template" -> "Failed to get template: "
      [] t = "create_template" -> "Failed to create template: "
      [] t = "update_template" -> "Failed to update template: "
      [] t = "delete_template" -> "Failed to delete template: "
      [] t = "delete_template_variant" -> "Failed to delete template variant: "
      [] t = "list_contacts" -> "Failed to list contacts: "
      [] t = "get_contact" -> "Failed to get contact: "
      [] t = "create_contact" -> "Failed to create contact: "
      [] t = "update_contact" -> "Failed to update contact: "
      [] t = "delete_contact" -> "Failed to delete contact: "

\* Every handler, the delete handlers included, wraps the data it received.
SuccessResult_PassThrough(t, a, data) == toolResult(data)

\* What a handler returns once apiRequest returned data: the three delete
\* handlers drop data and answer with a literal, the others wrap data.
SuccessResult(t, a, data) ==
    CASE t = "delete_contact" ->
            toolResult(JObj(<<"deleted", "id">>,
                [deleted |-> JBool(TRUE), id |-> JStr(a.contact_id)]))
      [] t = "delete_template" ->
            toolResult(JObj(<<"deleted", "name">>,
                [deleted |-> JBool(TRUE), name |-> JStr(a.name)]))
      [] t = "delete_template_variant" ->
            toolResult(JObj(<<"deleted", "name", "language">>,
                [deleted |-> JBool(TRUE), name |-> JStr(a.name),
                 language |-> JStr(a.language)]))
      [] OTHER -> toolResult(data)

\* A catch block that handles only the errors apiRequest classifies and
\* rethrows the rest.
HandlerCatch_OnlyApiError(t, error) ==
    IF error.name = "MessageBirdApiError"
    THEN [escaped |-> FALSE,
          result |-> Some(toolError(FailurePrefix(t) \o error.message))]
    ELSE [escaped |-> TRUE, result |-> None]

\* A catch block that forwards the underlying message without the prefix.
HandlerCatch_NoPrefix(t, error) ==
    [escaped |-> FALSE, result |-> Some(toolError(error.message))]

\* The catch block of a handler: `catch (error) { return toolError(...) }`.
\* escaped tells whether the error left the handler instead.
HandlerCatch(t, error) ==
    [escaped |-> FALSE,
     result |-> Some(toolError(FailurePrefix(t) \o error.message))]

-----------------------------------------------------------------------------
(* Arguments the host can pass: every record the tool's inputSchema admits *)
(* over small value sets.  Req is a required field, Opt an optional one.   *)

Req(f, vals) == [f |-> f, vals |-> vals, opt |-> FALSE]

Opt(f, vals) == [f |-> f, vals |-> vals, opt |-> TRUE]

RECURSIVE Extend(_, _)
Extend(recs, specs) ==
    IF specs = <<>> THEN recs
    ELSE LET sp == Head(specs)
         IN  Extend({With(r, sp.f, v) : r \in recs, v \in sp.vals}
                        \cup (IF sp.opt THEN recs ELSE {}),
                    Tail(specs))

Records(specs) == Extend({EmptyObject}, specs)

Phone == {"+5511999999999"}

Channel == {"CHANNEL123"}

MediaUrl == {"https://cdn.example/a.png"}

PageArg == {"", "20"}

\* a value whose characters the query string has to encode
OddPageArg == {"", "10", "5&offset=9 ?"}

ConversationIds == {"cv1", "cv2"}

ContactIds == {"c1", "c2"}

TemplateNames == {"order_update"}

Languages == {"en", "pt_BR"}

\* longest parameters list of send_template the model draws
MaxParameters == 2

ParameterLists ==
    UNION {[1..n -> {"John", "Order #123"}] : n \in 0..MaxParameters}

\* button_value of create_template: empty, a phone number, and URLs with no
\* placeholder, with one, with two, and with "{{" that opens no {{n}} token
ButtonValues ==
    {"", "+3161234", "https://shop.example/a", "https://shop.example/{{1}}",
     "https://s.example/{{1}}/{{22}}", "https://shop.example/{{x}}"}

ButtonLists ==
    {<<[id |-> "yes", title |-> "Yes"]>>,
     <<[id |-> "yes", title |-> "Yes"], [id |-> "no", title |-> "No"]>>}

SectionLists ==
    {<<[title |-> "Menu",
        rows |-> <<[id |-> "r1", title |-> "Pizza"],
                   [id |-> "r2", title |-> "Pasta", description |-> "Fresh"]>>]>>}

Inputs(t) ==
    CASE t = "send_text" ->
            Records(<<Req("to", Phone), Req("from", Channel),
                      Req("text", {"hello"}),
                      Opt("disable_url_preview", BOOLEAN),
                      Opt("report_url", {"", "https://hook.example/dlr"})>>)
      [] t = "send_media" ->
            Records(<<Req("to", Phone), Req("from", Channel),
                      Req("media_type", {"image", "video", "audio", "file"}),
                      Req("media_url", MediaUrl),
                      Opt("caption", {"", "Look"})>>)
      [] t = "send_location" ->
            Records(<<Req("to", Phone), Req("from", Channel),
                      Req("latitude", {0, 52}), Req("longitude", {4}),
                      Opt("name", {"", "HQ"}), Opt("address", {"", "Main St 1"})>>)
      [] t = "send_template" ->
            Records(<<Req("to", Phone), Req("from", Channel),
                      Req("namespace", {"ns-1"}),
                      Req("template_name", TemplateNames),
                      Req("language_code", {"en"}),
                      Opt("parameters", ParameterLists),
                      Opt("header_image_url", {"https://cdn.example/h.png"}),
                      Opt("header_video_url", {"https://cdn.example/h.mp4"}),
                      Opt("header_document_url", {"https://cdn.example/h.pdf"}),
                      Opt("button_url_suffix", {"", "promo"})>>)
      [] t = "send_interactive_buttons" ->
            Records(<<Req("to", Phone), Req("from", Channel),
                      Req("body_text", {"Continue?"}),
                      Req("buttons", ButtonLists),
                      Opt("header_text", {"", "Hi"}),
                      Opt("header_image_url", {"https://cdn.example/h.png"}),
                      Opt("footer_text", {"", "Bye"})>>)
      [] t = "send_interactive_list" ->
            Records(<<Req("to", Phone), Req("from", Channel),
                      Req("body_text", {"Choose"}),
                      Req("button_label", {"Open"}),
                      Req("sections", SectionLists),
                      Opt("header_text", {"", "Hi"}),
                      Opt("footer_text", {"", "Bye"})>>)
      [] t = "list_conversations" ->
            Records(<<Opt("offset", PageArg), Opt("limit", OddPageArg)>>)
      [] t = "get_conversation" ->
            Records(<<Req("conversation_id", ConversationIds)>>)
      [] t = "update_conversation" ->
            Records(<<Req("conversation_id", ConversationIds),
                      Req("status", {"active", "archived"})>>)
      [] t = "list_conversation_messages" ->
            Records(<<Req("conversation_id", ConversationIds),
                      Opt("offset", PageArg), Opt("limit", PageArg)>>)
      [] t = "get_message" ->
            Records(<<Req("conversation_id", ConversationIds),
                      Req("message_id", {"m1"})>>)
      [] t = "reply_to_conversation" ->
            Records(<<Req("conversation_id", {"cv1"}),
                      Req("type", {"text", "image", "video", "audio", "file",
                                   "location"}),
                      Opt("text", {"hi"}),
                      Opt("media_url", MediaUrl),
                      Opt("caption", {"", "Look"}),
                      Opt("latitude", {52}), Opt("longitude", {4}),
                      Opt("channel_id", Channel)>>)
      [] t = "list_messages" ->
            Records(<<Opt("offset", PageArg), Opt("limit", PageArg)>>)
      [] t = "list_templates" ->
            Records(<<Opt("offset", PageArg), Opt("limit", PageArg),
                      Opt("waba_id", {"waba 1"}), Opt("channel_id", Channel)>>)
      [] t = "get_template" ->
            Records(<<Req("name", TemplateNames), Req("language", Languages)>>)
      [] t = "create_template" ->
            Records(<<Req("name", TemplateNames), Req("language", {"en"}),
                      Req("category", {"UTILITY"}),
                      Req("body_text", {"Hi {{1}}"}),
                      Opt("header_type", {"TEXT", "IMAGE"}),
                      Opt("header_text", {"Hello"}),
                      Opt("header_example_url", {"https://cdn.example/h.png"}),
                      Opt("footer_text", {"Bye"}),
                      Opt("button_type", {"PHONE_NUMBER", "URL", "QUICK_REPLY"}),
                      Opt("button_text", {"Go"}),
                      Opt("button_value", {"https://shop.example/{{1}}"}),
                      Opt("body_examples", {<<"John">>})>>)
            \cup
            Records(<<Req("name", TemplateNames), Req("language", {"en"}),
                      Req("category", {"MARKETING", "AUTHENTICATION"}),
                      Req("body_text", {"Hi"}),
                      Opt("waba_id", {"", "waba 1"}),
                      Opt("allow_category_change", BOOLEAN)>>)
            \cup
            Records(<<Req("name", TemplateNames), Req("language", {"en"}),
                      Req("category", {"UTILITY"}),
                      Req("body_text", {"Hi"}),
                      Opt("header_type", {"TEXT", "VIDEO", "DOCUMENT"}),
                      Opt("header_text", {"", "Hello"}),
                      Opt("header_example_url", {"https://cdn.example/h.mp4"}),
                      Opt("body_examples", {<<>>, <<"John", "Ann">>})>>)
            \cup
            Records(<<Req("name", TemplateNames), Req("language", {"en"}),
                      Req("category", {"UTILITY"}),
                      Req("body_text", {"Hi"}),
                      Opt("button_type", {"PHONE_NUMBER", "URL", "QUICK_REPLY"}),
                      Opt("button_text", {"", "Go"}),
                      Opt("button_value", ButtonValues)>>)
      [] t = "update_template" ->
            Records(<<Req("name", TemplateNames), Req("language", {"en"}),
                      Req("waba_id", {"waba 1"}),
                      Req("components",
                          {"[]", "[{\"type\":\"BODY\",\"text\":\"Hi\"}]",
                           "", "not json"}),
                      Opt("category", {"MARKETING"})>>)
      [] t = "delete_template" ->
            Records(<<Req("name", TemplateNames \cup {"promo"})>>)
      [] t = "delete_template_variant" ->
            Records(<<Req("name", TemplateNames), Req("language", Languages)>>)
      [] t = "list_contacts" ->
            Records(<<Opt("offset", PageArg), Opt("limit", PageArg)>>)
      [] t = "get_contact" ->
            Records(<<Opt("contact_id", {""} \cup ContactIds),
                      Opt("msisdn", {""} \cup Phone),
                      Opt("name", {"", "Ann Lee"})>>)
      [] t = "create_contact" ->
            Records(<<Req("msisdn", Phone),
                      Opt("first_name", {"", "Ann"}), Opt("last_name", {"Lee"}),
                      Opt("custom1", {"vip"}), Opt("custom4", {""})>>)
      [] t = "update_contact" ->
            Records(<<Req("contact_id", ContactIds),
                      Opt("msisdn", Phone),
                      Opt("first_name", {"", "Ann"}),
                      Opt("custom2", {"x"}), Opt("custom3", {"y"})>>)
      [] t = "delete_contact" ->
            Records(<<Req("contact_id", ContactIds)>>)

-----------------------------------------------------------------------------
(* The HTTP responses the provider can answer with.                        *)

Statuses == {200, 201, 204, 400, 429, 500}

ReasonPhrase(status) ==
    CASE status = 200 -> "OK"
      [] status = 201 -> "Created"
      [] status = 204 -> "No Content"
      [] status = 400 -> "Bad Request"
      [] status = 429 -> "Too Many Requests"
      [] status = 500 -> "Internal Server Error"

Bodies ==
    {"", "<html>502</html>", "null", "\"down\"", "{}", "{\"id\":\"abc\"}",
     "{\"errors\":[]}", "{\"errors\":[{\"code\":2}]}",
     "{\"errors\":[{\"description\":\"Invalid token\"}]}",
     "{\"errors\":[{\"description\":\"\"}]}"}

Responses ==
    {[status |-> st, statusText |-> ReasonPhrase(st), body |-> b] :
        st \in Statuses, b \in Bodies}

ApiKeys == {"live_k3y"}

\* What the host can leave in MESSAGEBIRD_API_KEY: unset, empty, or a key.
Environments == {None, Some("")} \cup {Some(k) : k \in ApiKeys}

MaxConcurrent == 2

Slots == 1..MaxConcurrent

\* the activation record of a slot in which no invocation is running
IdleFrame ==
    [pc |-> "idle", tool |-> "", args |-> EmptyObject, requests |-> <<>>,
     response |-> None, result |-> None]

-----------------------------------------------------------------------------
(* The state machine of one invocation.                                    *)

Init ==
    /\ env \in Environments
    /\ proc = "starting"
    /\ exitCode = None
    /\ registered = {}
    /\ API_KEY = ""
    /\ frames = [s \in Slots |-> IdleFrame]
    /\ pc = "idle"
    /\ tool = ""
    /\ args = EmptyObject
    /\ requests = <<>>
    /\ response = None
    /\ bodyReads = 0
    /\ raised = None
    /\ result = None
    /\ escaped = FALSE

\* auth.ts 14: the module is evaluated, before any module that imports it.
LoadAuth ==
    /\ proc = "starting"
    /\ LET r == getRequiredEnv(env)
       IN  IF r.exit
           THEN /\ proc' = "exited"
                /\ exitCode' = Some(r.code)
                /\ API_KEY' = API_KEY
           ELSE /\ proc' = "loaded"
                /\ exitCode' = exitCode
                /\ API_KEY' = r.value
    /\ UNCHANGED <<env, registered, pc, tool, args, requests, response,
                   bodyReads, raised, result, escaped, frames>>

\* index 8-15: the server is built and the four groups of tools registered.
RegisterTools ==
    /\ proc = "loaded"
    /\ proc' = "registered"
    /\ registered' = Tools
    /\ UNCHANGED <<env, exitCode, API_KEY, pc, tool, args, requests, response,
                   bodyReads, raised, result, escaped, frames>>

\* index 16-24: main() connects the transport; a failure is fatal.
Connect ==
    /\ proc = "registered"
    /\ \/ /\ proc' = "running"
          /\ exitCode' = exitCode
       \/ /\ proc' = "exited"
          /\ exitCode' = Some(1)
    /\ UNCHANGED <<env, registered, API_KEY, pc, tool, args, requests,
                   response, bodyReads, raised, result, escaped, frames>>

\* The host calls the handler of tool t with arguments a; the handler runs
\* until it returns or suspends in fetch().
Start(t, a) ==
    /\ proc = "running"
    /\ t \in registered
    /\ pc = "idle"
    /\ tool' = t
    /\ args' = a
    /\ LET p == Plan(t, a)
       IN  IF p.early
           THEN /\ result' = Some(p.result)
                /\ requests' = requests
                /\ pc' = "returned"
           ELSE /\ requests' = Append(requests,
                        FetchCall(API_KEY, p.endpoint, p.method, p.body,
                                  p.queryParams, p.target))
                /\ result' = result
                /\ pc' = "fetching"
    /\ UNCHANGED <<env, proc, exitCode, registered, API_KEY, response,
                   bodyReads, raised, escaped, frames>>

Invoke_send_text == \E a \in Inputs("send_text") : Start("send_text", a)

Invoke_send_media == \E a \in Inputs("send_media") : Start("send_media", a)

Invoke_send_location == \E a \in Inputs("send_location") : Start("send_location", a)

Invoke_send_template == \E a \in Inputs("send_template") : Start("send_template", a)

Invoke_send_interactive_buttons == \E a \in Inputs("send_interactive_buttons") : Start("send_interactive_buttons", a)

Invoke_send_interactive_list == \E a \in Inputs("send_interactive_list") : Start("send_interactive_list", a)

Invoke_list_conversations == \E a \in Inputs("list_conversations") : Start("list_conversations", a)

Invoke_get_conversation == \E a \in Inputs("get_conversation") : Start("get_conversation", a)

Invoke_update_conversation == \E a \in Inputs("update_conversation") : Start("update_conversation", a)

Invoke_list_conversation_messages == \E a \in Inputs("list_conversation_messages") : Start("list_conversation_messages", a)

Invoke_get_message == \E a \in Inputs("get_message") : Start("get_message", a)

Invoke_reply_to_conversation == \E a \in Inputs("reply_to_conversation") : Start("reply_to_conversation", a)

Invoke_list_messages == \E a \in Inputs("list_messages") : Start("list_messages", a)

Invoke_list_templates == \E a \in Inputs("list_templates") : Start("list_templates", a)

Invoke_get_template == \E a \in Inputs("get_template") : Start("get_template", a)

Invoke_create_template == \E a \in Inputs("create_template") : Start("create_template", a)

Invoke_update_template == \E a \in Inputs("update_template") : Start("update_template", a)

Invoke_delete_template == \E a \in Inputs("delete_template") : Start("delete_template", a)

Invoke_delete_template_variant == \E a \in Inputs("delete_template_variant") : Start("delete_template_variant", a)

Invoke_list_contacts == \E a \in Inputs("list_contacts") : Start("list_contacts", a)

Invoke_get_contact == \E a \in Inputs("get_contact") : Start("get_contact", a)

Invoke_create_contact == \E a \in Inputs("create_contact") : Start("create_contact", a)

Invoke_update_contact == \E a \in Inputs("update_contact") : Start("update_contact", a)

Invoke_delete_contact == \E a \in Inputs("delete_contact") : Start("delete_contact", a)

\* The handler resumes with what apiRequest made of the response.
Resume(outcome) ==
    /\ bodyReads' = bodyReads + outcome.reads
    /\ IF outcome.threw
       THEN LET c == HandlerCatch(tool, outcome.error)
            IN  /\ raised' = Some(outcome.error)
                /\ result' = c.result
                /\ escaped' = c.escaped
       ELSE /\ raised' = raised
            /\ result' = Some(SuccessResult(tool, args, outcome.value))
            /\ escaped' = escaped
    /\ pc' = "returned"

\* fetch() resolves with an HTTP response.
FetchResolve ==
    /\ pc = "fetching"
    /\ \E resp \in Responses :
        /\ response' = Some(resp)
        /\ Resume(Settle(resp))
    /\ UNCHANGED <<env, proc, exitCode, registered, API_KEY, tool, args,
                   requests, frames>>

\* A fetch() rejection answered by sending the request once more.
FetchReject_RetryOnce ==
    /\ pc = "fetching"
    /\ IF Len(requests) < 2
       THEN /\ requests' = Append(requests, requests[1])
            /\ UNCHANGED <<env, proc, exitCode, registered, API_KEY, pc, tool,
                           args, response, bodyReads, raised, result,
                           escaped, frames>>
       ELSE /\ Resume(Thrown(TypeError("fetch failed"), 0))
            /\ UNCHANGED <<env, proc, exitCode, registered, API_KEY, tool,
                           args, requests, response, frames>>

\* fetch() rejects: DNS failure, connection reset.
FetchReject ==
    /\ pc = "fetching"
    /\ Resume(Thrown(TypeError("fetch failed"), 0))
    /\ UNCHANGED <<env, proc, exitCode, registered, API_KEY, tool, args,
                   requests, response, frames>>

\* The host takes the result; the next invocation starts from scratch.
Return ==
    /\ pc = "returned"
    /\ pc' = "idle"
    /\ tool' = ""
    /\ args' = EmptyObject
    /\ requests' = <<>>
    /\ response' = None
    /\ bodyReads' = 0
    /\ raised' = None
    /\ result' = None
    /\ escaped' = FALSE
    /\ UNCHANGED <<env, proc, exitCode, registered, API_KEY, frames>>

Next ==
    \/ LoadAuth
    \/ RegisterTools
    \/ Connect
    \/ Invoke_send_text
    \/ Invoke_send_media
    \/ Invoke_send_location
    \/ Invoke_send_template
    \/ Invoke_send_interactive_buttons
    \/ Invoke_send_interactive_list
    \/ Invoke_list_conversations
    \/ Invoke_get_conversation
    \/ Invoke_update_conversation
    \/ Invoke_list_conversation_messages
    \/ Invoke_get_message
    \/ Invoke_reply_to_conversation
    \/ Invoke_list_messages
    \/ Invoke_list_templates
    \/ Invoke_get_template
    \/ Invoke_create_template
    \/ Invoke_update_template
    \/ Invoke_delete_template
    \/ Invoke_delete_template_variant
    \/ Invoke_list_contacts
    \/ Invoke_get_contact
    \/ Invoke_create_contact
    \/ Invoke_update_contact
    \/ Invoke_delete_contact
    \/ FetchResolve
    \/ FetchReject
    \/ Return

Spec == Init /\ [][Next]_vars

-----------------------------------------------------------------------------
(* Concurrent invocations.  The host may call a handler while others are   *)
(* suspended at an await; each call has its own activation record, kept    *)
(* in frames[s].  A handler runs without interruption between two awaits.  *)

ConcurrentTools == {"send_template", "get_contact", "delete_contact"}

ConcurrentInputs(t) ==
    CASE t = "send_template" ->
            Records(<<Req("to", Phone), Req("from", Channel),
                      Req("namespace", {"ns-1"}),
                      Req("template_name", TemplateNames),
                      Req("language_code", {"en"}),
                      Opt("parameters", {<<"John">>}),
                      Opt("header_image_url", {"https://cdn.example/h.png"})>>)
      [] t = "get_contact" ->
            Records(<<Req("contact_id", {"c1"})>>)
            \cup Records(<<Req("name", {"Ann Lee"})>>)
      [] t = "delete_contact" ->
            Records(<<Req("contact_id", ContactIds)>>)

ConcurrentResponses ==
    {[status |-> 200, statusText |-> ReasonPhrase(200),
      body |-> "{\"id\":\"abc\"}"],
     [status |-> 204, statusText |-> ReasonPhrase(204), body |-> ""],
     [status |-> 429, statusText |-> ReasonPhrase(429),
      body |-> "{\"errors\":[{\"description\":\"Invalid token\"}]}"],
     [status |-> 500, statusText |-> ReasonPhrase(500),
      body |-> "<html>502</html>"]}

\* The handler's parameters kept in one binding of the module, which every
\* call overwrites and every continuation reads: the binding holds what the
\* first call still running put there.
Closure_Shared(fr, s) ==
    LET active == {x \in DOMAIN fr : fr[x].pc # "idle"}
        first == CHOOSE x \in active : \A y \in active : x <= y
    IN  [tool |-> fr[first].tool, args |-> fr[first].args]

\* What the continuation of the handler in slot s sees of its parameters:
\* the bindings of its own call.
Closure(fr, s) == [tool |-> fr[s].tool, args |-> fr[s].args]

\* The handler in slot s resumes with what apiRequest made of the response.
ResumeIn(s, outcome) ==
    LET own == Closure(frames, s)
    IN  frames' = [frames EXCEPT ![s] =
            [@ EXCEPT !.pc = "returned",
                      !.result =
                        IF outcome.threw
                        THEN HandlerCatch(own.tool, outcome.error).result
                        ELSE Some(SuccessResult(own.tool, own.args,
                                                outcome.value))]]

\* The host calls a handler in a free slot; it runs up to its fetch().
InvokeIn(s) ==
    /\ proc = "running"
    /\ frames[s].pc = "idle"
    /\ \E t \in ConcurrentTools \cap registered :
         \E a \in ConcurrentInputs(t) :
            LET p == Plan(t, a)
            IN  frames' = [frames EXCEPT ![s] =
                    IF p.early
                    THEN [pc |-> "returned", tool |-> t, args |-> a,
                          requests |-> <<>>, response |-> None,
                          result |-> Some(p.result)]
                    ELSE [pc |-> "fetching", tool |-> t, args |-> a,
                          requests |-> <<FetchCall(API_KEY, p.endpoint,
                                            p.method, p.body, p.queryParams,
                                            p.target)>>,
                          response |-> None, result |-> None]]
    /\ UNCHANGED <<env, proc, exitCode, registered, API_KEY, pc, tool, args,
                   requests, response, bodyReads, raised, result, escaped>>

\* fetch() of slot s resolves: a 204 ends apiRequest at once, any other status
\* suspends it again in response.json().
ResolveIn(s) ==
    /\ frames[s].pc = "fetching"
    /\ \E resp \in ConcurrentResponses :
         IF resp.status = 204
         THEN LET own == Closure(frames, s)
              IN  frames' = [frames EXCEPT ![s] =
                      [@ EXCEPT !.pc = "returned",
                                !.response = Some(resp),
                                !.result = Some(SuccessResult(own.tool,
                                        own.args, Settle(resp).value))]]
         ELSE frames' = [frames EXCEPT ![s] =
                      [@ EXCEPT !.pc = "reading", !.response = Some(resp)]]
    /\ UNCHANGED <<env, proc, exitCode, registered, API_KEY, pc, tool, args,
                   requests, response, bodyReads, raised, result, escaped>>

\* response.json() of slot s settles and the handler runs to its return.
ReadBodyIn(s) ==
    /\ frames[s].pc = "reading"
    /\ ResumeIn(s, Settle(frames[s].response[1]))
    /\ UNCHANGED <<env, proc, exitCode, registered, API_KEY, pc, tool, args,
                   requests, response, bodyReads, raised, result, escaped>>

\* fetch() of slot s rejects.
RejectIn(s) ==
    /\ frames[s].pc = "fetching"
    /\ ResumeIn(s, Thrown(TypeError("fetch failed"), 0))
    /\ UNCHANGED <<env, proc, exitCode, registered, API_KEY, pc, tool, args,
                   requests, response, bodyReads, raised, result, escaped>>

\* The host takes the result of slot s.
ReturnIn(s) ==
    /\ frames[s].pc = "returned"
    /\ frames' = [frames EXCEPT ![s] = IdleFrame]
    /\ UNCHANGED <<env, proc, exitCode, registered, API_KEY, pc, tool, args,
                   requests, response, bodyReads, raised, result, escaped>>

NextConcurrent ==
    \/ LoadAuth
    \/ RegisterTools
    \/ Connect
    \/ \E s \in Slots : InvokeIn(s)
    \/ \E s \in Slots : ResolveIn(s)
    \/ \E s \in Slots : ReadBodyIn(s)
    \/ \E s \in Slots : RejectIn(s)
    \/ \E s \in Slots : ReturnIn(s)

SpecConcurrent == Init /\ [][NextConcurrent]_vars

-----------------------------------------------------------------------------
(* Handlers called directly.  registerTemplateTools and                    *)
(* registerConversationTools hand each handler to whatever server object   *)
(* they are given, so a handler can be called with arguments that no       *)
(* inputSchema has screened: a type outside the enum, for one.             *)

DirectInputs(t) ==
    CASE t = "update_template" -> Inputs("update_template")
      [] t = "reply_to_conversation" ->
            Records(<<Req("conversation_id", {"cv1"}),
                      Req("type", {"text", "image", "video", "audio", "file",
                                   "location", "sticker", ""}),
                      Opt("text", {"hi"}),
                      Opt("media_url", MediaUrl),
                      Opt("caption", {"Look"}),
                      Opt("latitude", {52}), Opt("longitude", {4})>>)

Call_update_template ==
    \E a \in DirectInputs("update_template") : Start("update_template", a)

Call_reply_to_conversation ==
    \E a \in DirectInputs("reply_to_conversation") :
        Start("reply_to_conversation", a)

NextDirect ==
    \/ LoadAuth
    \/ RegisterTools
    \/ Connect
    \/ Call_update_template
    \/ Call_reply_to_conversation
    \/ FetchResolve
    \/ FetchReject
    \/ Return

SpecDirect == Init /\ [][NextDirect]_vars

-----------------------------------------------------------------------------
(* Vocabulary of the properties.                                           *)

IsSuccessResult(r) == DOMAIN r = {"content"}

IsErrorResult(r) == DOMAIN r = {"content", "isError"} /\ r.isError = TRUE

ResultText(r) == r.content[1].text

\* the invocation has returned after fetch() resolved with a response
Answered == pc = "returned" /\ response # None

\* the body object the (single) request of this invocation was built from
SentBody == requests[1].body[1].json

RateLimitMessage == "Rate limit exceeded. Try again in a moment."

-----------------------------------------------------------------------------
(* C1: every response with status 429, whatever its body, makes apiRequest *)
(* raise a MessageBirdApiError with status 429 and the fixed rate-limit    *)
(* message.                                                                *)
C1_RateLimitAlwaysClassified ==
    (Answered /\ response[1].status = 429) =>
        /\ raised # None
        /\ raised[1].name = "MessageBirdApiError"
        /\ raised[1].status = 429
        /\ raised[1].message = RateLimitMessage

(* C2: error classification is total: every response that is not 2xx,      *)
(* whatever its body, makes apiRequest raise a MessageBirdApiError carrying *)
(* the response's status, never another kind of error.                      *)
C2_ClassificationTotal ==
    (Answered /\ ~ResponseOk(response[1].status)) =>
        /\ raised # None
        /\ raised[1].name = "MessageBirdApiError"
        /\ raised[1].status = response[1].status

(* C3: no error escapes a handler: every invocation that has ended holds    *)
(* exactly one ToolResult, a success result (no isError) or an error result *)
(* (isError true), and whatever was raised beneath the handler became an    *)
(* error result.                                                            *)
C3_NoErrorEscapes ==
    /\ ~escaped
    /\ pc # "returned" => result = None
    /\ pc = "returned" =>
        /\ Len(result) = 1
        /\ IsSuccessResult(result[1]) \/ IsErrorResult(result[1])
        /\ ~(IsSuccessResult(result[1]) /\ IsErrorResult(result[1]))
        /\ raised # None => IsErrorResult(result[1])
        /\ (raised = None /\ requests # <<>>) => IsSuccessResult(result[1])

\* a 2xx body that is not JSON made apiRequest throw, and the handler
\* turned it into an error result
C3_Witness ==
    /\ Answered
    /\ ResponseOk(response[1].status)
    /\ raised # None /\ raised[1].name = "SyntaxError"
    /\ IsErrorResult(result[1])

C5_HsmShapesExclusive ==
    (tool = "send_template" /\ requests # <<>>) =>
        LET hsm == SentBody.content.hsm
        IN  /\ ~({"params", "components"} \subseteq DOMAIN hsm)
            /\ ("header_image_url" \in DOMAIN args
                    /\ "parameters" \in DOMAIN args
                    /\ Len(args.parameters) > 0)
                => ("components" \in DOMAIN hsm /\ "params" \notin DOMAIN hsm)

C5_Witness ==
    /\ tool = "send_template" /\ pc = "fetching"
    /\ "header_image_url" \in DOMAIN args
    /\ "parameters" \in DOMAIN args /\ Len(args.parameters) = 2
    /\ "components" \in DOMAIN SentBody.content.hsm

\* JSON.stringify({deleted: true, id: c}, null, 2)
DeletedContactText(c) == "{\n  \"deleted\": true,\n  \"id\": \"" \o c \o "\"\n}"

\* delete_contact has issued exactly one request, DELETE /contacts/<id> on
\* the REST service
OneDeleteContactRequest ==
    /\ Len(requests) = 1
    /\ requests[1].method = "DELETE"
    /\ requests[1].url = "https://rest.messagebird.com/contacts/" \o args.contact_id
    /\ requests[1].body = None

(* C6 (as stated): delete_contact issues exactly one DELETE /contacts/c on  *)
(* the REST service and on every 2xx response its result is the payload     *)
(* {deleted: true, id: c}, whatever the body.                               *)
C6_DeleteContactAny2xx ==
    (tool = "delete_contact") =>
        /\ OneDeleteContactRequest
        /\ (Answered /\ ResponseOk(response[1].status)) =>
            /\ IsSuccessResult(result[1])
            /\ ResultText(result[1]) = DeletedContactText(args.contact_id)

(* C6 (amended): delete_contact issues exactly one DELETE /contacts/c on    *)
(* the REST service; on a 204, or on another 2xx whose body parses as JSON, *)
(* its result is {deleted: true, id: c} whatever the parsed value; on       *)
(* another 2xx whose body is not JSON it is an error result.                *)
C6_DeleteContactParsed2xx ==
    (tool = "delete_contact") =>
        /\ OneDeleteContactRequest
        /\ (Answered /\ ResponseOk(response[1].status)) =>
            IF response[1].status = 204
               \/ response[1].body \notin {"", "<html>502</html>"}
            THEN /\ IsSuccessResult(result[1])
                 /\ ResultText(result[1]) = DeletedContactText(args.contact_id)
            ELSE /\ IsErrorResult(result[1])
                 /\ StartsWith(ResultText(result[1]), "Failed to delete contact: ")

C6_Witness ==
    /\ tool = "delete_contact" /\ Answered
    /\ args.contact_id = "c1"
    /\ response[1].status = 200 /\ response[1].body = "{\"id\":\"abc\"}"
    /\ ResultText(result[1]) = "{\n  \"deleted\": true,\n  \"id\": \"c1\"\n}"

\* the description a response body carries in errors[0].description, "" if
\* it carries none
DescriptionIn(body) ==
    IF body = "{\"errors\":[{\"description\":\"Invalid token\"}]}"
    THEN "Invalid token" ELSE ""

(* C7: for a response that is neither 2xx nor 429, the raised error's       *)
(* message is "MessageBird API error (<status>): <description>" when the    *)
(* body is JSON with errors[0].description, and carries the status text in  *)
(* every other case.                                                        *)
C7_DescriptionOrStatusText ==
    (Answered /\ ~ResponseOk(response[1].status) /\ response[1].status # 429) =>
        /\ raised # None
        /\ raised[1].message
             = "MessageBird API error (" \o ToString(response[1].status) \o "): "
               \o (IF DescriptionIn(response[1].body) # ""
                   THEN DescriptionIn(response[1].body)
                   ELSE response[1].statusText)

(* C8: a 204 response makes apiRequest return an empty object as a success  *)
(* value without reading the body, whatever the method, target and body.    *)
C8_NoContentNeverParsed ==
    (Answered /\ response[1].status = 204) =>
        /\ bodyReads = 0
        /\ raised = None
        /\ IsSuccessResult(result[1])
        /\ tool \notin {"delete_contact", "delete_template",
                        "delete_template_variant"}
            => ResultText(result[1]) = "{}"

\* a 204 that carries text which is not JSON, answered to a POST
C8_Witness ==
    /\ Answered
    /\ response[1].status = 204 /\ response[1].body = "<html>502</html>"
    /\ tool = "create_contact"
    /\ requests[1].method = "POST"
    /\ ResultText(result[1]) = "{}"

\* the positions at which the character sep occurs in s
Positions(s, sep) == {i \in 1..Len(s) : SubSeq(s, i, i) = sep}

\* the k-th smallest element of the set of numbers P
Nth(P, k) == CHOOSE i \in P : Cardinality({j \in P : j < i}) = k - 1

\* the pieces of s between occurrences of the character sep
SplitOn(s, sep) ==
    LET P == Positions(s, sep)
        n == Cardinality(P) + 1
    IN  [k \in 1..n |->
            SubSeq(s, IF k = 1 THEN 1 ELSE Nth(P, k - 1) + 1,
                      IF k = n THEN Len(s) ELSE Nth(P, k) - 1)]

\* what a server reading a form-urlencoded query string decodes
RECURSIVE FormDecode(_)
FormDecode(s) ==
    IF s = "" THEN ""
    ELSE IF SubSeq(s, 1, 1) = "+" THEN " " \o FormDecode(SubSeq(s, 2, Len(s)))
    ELSE IF SubSeq(s, 1, 1) = "%" /\ Len(s) >= 3
    THEN LET hex == SubSeq(s, 2, 3)
         IN  (CASE hex = "26" -> "&" [] hex = "3D" -> "="
                [] hex = "2B" -> "+" [] hex = "3F" -> "?"
                [] hex = "25" -> "%" [] hex = "2F" -> "/"
                [] hex = "3A" -> ":" [] OTHER -> "%" \o hex)
             \o FormDecode(SubSeq(s, 4, Len(s)))
    ELSE SubSeq(s, 1, 1) \o FormDecode(SubSeq(s, 2, Len(s)))

\* the decoded name=value pairs of a query string, in order
QueryPairs(qs) ==
    LET pieces == SplitOn(qs, "&")
    IN  [i \in 1..Len(pieces) |->
            LET kv == SplitOn(pieces[i], "=")
            IN  [key |-> FormDecode(kv[1]),
                 value |-> IF Len(kv) = 2 THEN Some(FormDecode(kv[2])) ELSE None]]

\* the entries of a queryParams mapping whose value is neither undefined
\* nor the empty string, in order
RECURSIVE Surviving(_)
Surviving(entries) ==
    IF entries = <<>> THEN <<>>
    ELSE (IF Head(entries).value \notin {None, Some("")}
          THEN <<Head(entries)>> ELSE <<>>) \o Surviving(Tail(entries))

QuestionMarks(url) == Cardinality(Positions(url, "?"))

(* C9: in the URL apiRequest fetches, an entry of queryParams whose value   *)
(* is undefined or "" is absent, every other entry appears in the query     *)
(* string exactly once, and the URL has a "?" only if an entry survives.    *)
C9_QueryStringFiltered ==
    (requests # <<>>) =>
        LET p == Plan(tool, args)
            url == requests[1].url
            base == getBaseUrl(p.target) \o p.endpoint
            kept == IF p.queryParams = None THEN <<>>
                    ELSE Surviving(p.queryParams[1])
        IN  IF kept = <<>>
            THEN url = base /\ QuestionMarks(url) = 0
            ELSE /\ StartsWith(url, base \o "?")
                 /\ QuestionMarks(url) = 1
                 /\ QueryPairs(SubSeq(url, Len(base) + 2, Len(url))) = kept

\* one entry dropped for being "", one kept whose value needs encoding
C9_Witness ==
    /\ tool = "list_conversations" /\ pc = "fetching"
    /\ "offset" \in DOMAIN args /\ args.offset = ""
    /\ "limit" \in DOMAIN args /\ args.limit = "5&offset=9 ?"
    /\ requests[1].url
        = "https://conversations.messagebird.com/v1/conversations?limit=5%26offset%3D9+%3F"

(* C10: in send_media and reply_to_conversation the media object built for  *)
(* type audio never has a caption, whatever caption was supplied; for       *)
(* image, video and file a non-empty caption is placed in the media object. *)
C10_AudioNeverCaptioned ==
    (requests # <<>> /\ tool \in {"send_media", "reply_to_conversation"}) =>
        LET type == IF tool = "send_media" THEN args.media_type ELSE args.type
        IN  type \in {"image", "video", "audio", "file"} =>
                LET media == SentBody.content[type]
                IN  /\ DOMAIN SentBody.content = {type}
                    /\ type = "audio" => "caption" \notin DOMAIN media
                    /\ (type # "audio" /\ "caption" \in DOMAIN args
                            /\ args.caption # "")
                        => ("caption" \in DOMAIN media
                                /\ media.caption = args.caption)

C10_Witness ==
    /\ tool = "send_media" /\ pc = "fetching"
    /\ args.media_type = "audio"
    /\ "caption" \in DOMAIN args /\ args.caption = "Look"
    /\ DOMAIN SentBody.content.audio = {"url"}

\* the (single) button of the BUTTONS component create_template sent
SentButton ==
    LET cs == SentBody.components
        i == CHOOSE i \in 1..Len(cs) : cs[i].type = "BUTTONS"
    IN  cs[i].buttons[1]

\* create_template has sent a request whose BUTTONS component holds a URL
\* button made from a non-empty button_value
UrlButtonSent ==
    /\ tool = "create_template" /\ requests # <<>>
    /\ "button_type" \in DOMAIN args /\ args.button_type = "URL"
    /\ "button_text" \in DOMAIN args /\ args.button_text # ""
    /\ "button_value" \in DOMAIN args /\ args.button_value # ""

\* what replacing every {{n}} by example_value makes of the modelled values
ExampleOf(value) ==
    CASE value = "https://shop.example/{{1}}" ->
            "https://shop.example/example_value"
      [] value = "https://s.example/{{1}}/{{22}}" ->
            "https://s.example/example_value/example_value"
      [] OTHER -> value

\* the values that hold a {{n}} placeholder token
HasPlaceholder(value) ==
    value \in {"https://shop.example/{{1}}", "https://s.example/{{1}}/{{22}}"}

(* C11 (as stated): a URL button of create_template whose value holds       *)
(* placeholder tokens gets url = value and example = [value with every      *)
(* {{n}} replaced by example_value]; a URL button whose value holds no      *)
(* placeholder gets no example field.                                       *)
C11_ExampleIffPlaceholder ==
    UrlButtonSent =>
        /\ SentButton.url = args.button_value
        /\ IF HasPlaceholder(args.button_value)
           THEN /\ "example" \in DOMAIN SentButton
                /\ SentButton.example = <<ExampleOf(args.button_value)>>
           ELSE "example" \notin DOMAIN SentButton

(* C11 (amended): a URL button whose value contains "{{" gets url = value   *)
(* and example = [value with every {{n}} (n digits) replaced by             *)
(* example_value], so no {{n}} token remains in it; a URL button whose      *)
(* value does not contain "{{" gets no example field.                       *)
C11_ExampleIffOpeningBraces ==
    UrlButtonSent =>
        /\ SentButton.url = args.button_value
        /\ IF HasPlaceholder(args.button_value)
              \/ args.button_value = "https://shop.example/{{x}}"
           THEN /\ "example" \in DOMAIN SentButton
                /\ SentButton.example = <<ExampleOf(args.button_value)>>
           ELSE "example" \notin DOMAIN SentButton

C11_Witness ==
    /\ UrlButtonSent
    /\ args.button_value = "https://s.example/{{1}}/{{22}}"
    /\ SentButton.example = <<"https://s.example/example_value/example_value">>

\* the decoded query entries of the URL of the request sent, <<>> if the
\* URL has no query string
SentQuery ==
    LET url == requests[1].url
        P == Positions(url, "?")
    IN  IF P = {} THEN <<>>
        ELSE QueryPairs(SubSeq(url, Nth(P, 1) + 1, Len(url)))

\* the URL of the request sent, up to its query string
SentPath ==
    LET url == requests[1].url
        P == Positions(url, "?")
    IN  IF P = {} THEN url ELSE SubSeq(url, 1, Nth(P, 1) - 1)

\* get_contact has issued exactly one request, a GET without body
OneGetRequest ==
    /\ Len(requests) = 1
    /\ requests[1].method = "GET"
    /\ requests[1].body = None

ContactsUrl == "https://rest.messagebird.com/contacts"

(* C12 (as stated): get_contact dispatches exactly one GET on the REST      *)
(* service: to /contacts/<contact_id> without query when contact_id is      *)
(* present, otherwise to /contacts with exactly the supplied msisdn and     *)
(* name as query parameters (an empty one never reaches the URL).           *)
C12_LookupByPresence ==
    (tool = "get_contact") =>
        /\ OneGetRequest
        /\ IF "contact_id" \in DOMAIN args
           THEN requests[1].url = ContactsUrl \o "/" \o args.contact_id
           ELSE /\ SentPath = ContactsUrl
                /\ SentQuery =
                    (IF "msisdn" \in DOMAIN args /\ args.msisdn # ""
                     THEN <<Entry("msisdn", Some(args.msisdn))>> ELSE <<>>)
                    \o (IF "name" \in DOMAIN args /\ args.name # ""
                        THEN <<Entry("name", Some(args.name))>> ELSE <<>>)

(* C12 (amended): get_contact dispatches exactly one GET on the REST        *)
(* service: to /contacts/<contact_id> without query when contact_id is      *)
(* supplied and not empty (msisdn and name are ignored), otherwise to       *)
(* /contacts with exactly those of msisdn and name that were supplied and   *)
(* are not empty as query parameters.                                       *)
C12_LookupByNonEmpty ==
    (tool = "get_contact") =>
        /\ OneGetRequest
        /\ IF "contact_id" \in DOMAIN args /\ args.contact_id # ""
           THEN requests[1].url = ContactsUrl \o "/" \o args.contact_id
           ELSE /\ SentPath = ContactsUrl
                /\ SentQuery =
                    (IF "msisdn" \in DOMAIN args /\ args.msisdn # ""
                     THEN <<Entry("msisdn", Some(args.msisdn))>> ELSE <<>>)
                    \o (IF "name" \in DOMAIN args /\ args.name # ""
                        THEN <<Entry("name", Some(args.name))>> ELSE <<>>)

\* an id given together with filters: the filters are ignored
C12_Witness ==
    /\ tool = "get_contact" /\ pc = "fetching"
    /\ "contact_id" \in DOMAIN args /\ args.contact_id = "c2"
    /\ "name" \in DOMAIN args /\ args.name = "Ann Lee"
    /\ "msisdn" \in DOMAIN args /\ args.msisdn # ""
    /\ requests[1].url = "https://rest.messagebird.com/contacts/c2"


\* What JSON.stringify(payload, null, 2) prints for each payload the service
\* can answer with, written out by hand.
PrettyPayload(text) ==
    CASE text = "null" -> "null"
      [] text = "\"down\"" -> "\"down\""
      [] text = "{}" -> "{}"
      [] text = "{\"id\":\"abc\"}" -> "{\n  \"id\": \"abc\"\n}"
      [] text = "{\"errors\":[]}" -> "{\n  \"errors\": []\n}"
      [] text = "{\"errors\":[{\"code\":2}]}" ->
            "{\n  \"errors\": [\n    {\n      \"code\": 2\n    }\n  ]\n}"
      [] text = "{\"errors\":[{\"description\":\"Invalid token\"}]}" ->
            "{\n  \"errors\": [\n    {\n      \"description\": \"Invalid token\"\n    }\n  ]\n}"
      [] text = "{\"errors\":[{\"description\":\"\"}]}" ->
            "{\n  \"errors\": [\n    {\n      \"description\": \"\"\n    }\n  ]\n}"

JsonBodies ==
    {"null", "\"down\"", "{}", "{\"id\":\"abc\"}", "{\"errors\":[]}",
     "{\"errors\":[{\"code\":2}]}",
     "{\"errors\":[{\"description\":\"Invalid token\"}]}",
     "{\"errors\":[{\"description\":\"\"}]}"}

\* a 2xx response that has a JSON payload (204 No Content has none)
JsonSuccess ==
    /\ Answered
    /\ ResponseOk(response[1].status)
    /\ response[1].status # 204
    /\ response[1].body \in JsonBodies

(* C13: send_text issues exactly one POST /send on the conversations       *)
(* service with body {to, from, type "text", content {text}}; reportUrl is *)
(* in the body only for a non-empty report_url, disableUrlPreview is in    *)
(* content only when disable_url_preview is supplied; on a 2xx JSON        *)
(* response the result text is the pretty-printed payload.                 *)
C13_SendTextEndToEnd ==
    (tool = "send_text" /\ pc # "idle") =>
        /\ Len(requests) = 1
        /\ requests[1].method = "POST"
        /\ requests[1].url = "https://conversations.messagebird.com/v1/send"
        /\ DOMAIN SentBody =
              {"to", "from", "type", "content"}
              \cup (IF "report_url" \in DOMAIN args /\ args.report_url # ""
                    THEN {"reportUrl"} ELSE {})
        /\ SentBody.to = args.to
        /\ SentBody.from = args.from
        /\ SentBody.type = "text"
        /\ SentBody.content.text = args.text
        /\ ("reportUrl" \in DOMAIN SentBody =>
                SentBody.reportUrl = args.report_url)
        /\ DOMAIN SentBody.content =
              {"text"}
              \cup (IF "disable_url_preview" \in DOMAIN args
                    THEN {"disableUrlPreview"} ELSE {})
        /\ ("disableUrlPreview" \in DOMAIN SentBody.content =>
                SentBody.content.disableUrlPreview = args.disable_url_preview)
        /\ (JsonSuccess =>
                result = Some([content |->
                    <<[type |-> "text",
                       text |-> PrettyPayload(response[1].body)]>>]))

\* the spec's example: no report_url, 200 {"id":"abc"}, pretty-printed result
C13_Witness ==
    /\ tool = "send_text"
    /\ Answered
    /\ args = [to |-> "+5511999999999", from |-> "CHANNEL123", text |-> "hello"]
    /\ SentBody = [to |-> "+5511999999999", from |-> "CHANNEL123",
                   type |-> "text", content |-> [text |-> "hello"]]
    /\ response[1].status = 200
    /\ response[1].body = "{\"id\":\"abc\"}"
    /\ result # None
    /\ ResultText(result[1]) = "{\n  \"id\": \"abc\"\n}"


\* the request of this invocation failed: fetch() rejected, or the service
\* answered with a status outside 200..299
RequestFailed ==
    /\ pc = "returned"
    /\ Len(requests) > 0
    /\ \/ response = None
       \/ ~ResponseOk(response[1].status)

(* C14: every tool invocation performs at most one HTTP request, and after *)
(* a failed request (non-2xx status or network failure) it ends with an    *)
(* error result and no further request.                                    *)
C14_AtMostOneRequest ==
    /\ Len(requests) <= 1
    /\ (pc = "fetching" => Len(requests) = 1)
    /\ (RequestFailed =>
            /\ Len(requests) = 1
            /\ result # None
            /\ IsErrorResult(result[1]))

\* get_contact after a 500, and nothing was sent after the first request
C14_Witness ==
    /\ tool = "get_contact"
    /\ RequestFailed
    /\ response # None
    /\ response[1].status = 500
    /\ Len(requests) = 1
    /\ result # None
    /\ IsErrorResult(result[1])


\* the request a call of tool t with arguments a sends when it runs alone
RequestAlone(t, a) ==
    LET p == Plan(t, a)
    IN  FetchCall(API_KEY, p.endpoint, p.method, p.body, p.queryParams,
                  p.target)

\* the result a call of tool t with arguments a returns when it runs alone
\* and fetch() rejects (r = <<>>) or resolves with r[1]
ResultAlone(t, a, r) ==
    LET outcome == IF r = None THEN Thrown(TypeError("fetch failed"), 0)
                   ELSE Settle(r[1])
    IN  IF outcome.threw THEN HandlerCatch(t, outcome.error).result
        ELSE Some(SuccessResult(t, a, outcome.value))

\* what f holds was made from f's own arguments and f's own response
OwnDataOnly(f) ==
    f.pc # "idle" =>
        /\ f.requests = <<RequestAlone(f.tool, f.args)>>
        /\ (f.pc = "returned" => f.result = ResultAlone(f.tool, f.args,
                                                        f.response))

(* C15: under any interleaving of concurrent invocations, the request sent *)
(* and the result returned by an invocation are those of its own input and *)
(* its own response, a step of one invocation leaves the data of every     *)
(* other untouched, and the credential is never written after startup.     *)
C15_InvocationsIsolated ==
    [][ /\ \A s \in Slots : OwnDataOnly(frames'[s])
        /\ \A s, o \in Slots :
              (s # o /\ frames'[s] # frames[s]) => frames'[o] = frames[o]
        /\ (proc # "starting" => API_KEY' = API_KEY) ]_vars

\* delete_contact of c2 has returned its own id while a send_template that
\* was started before it is still waiting for its response
C15_Witness ==
    /\ frames[1].pc = "fetching"
    /\ frames[1].tool = "send_template"
    /\ frames[2].pc = "returned"
    /\ frames[2].tool = "delete_contact"
    /\ frames[2].args.contact_id = "c2"
    /\ frames[2].response # None
    /\ frames[2].result # None
    /\ ResultText(frames[2].result[1]) = DeletedContactText("c2")


\* MESSAGEBIRD_API_KEY is absent or empty
NoCredential == env = None \/ env[1] = ""

(* C16: when MESSAGEBIRD_API_KEY is absent or empty at process start, the  *)
(* process exits with status 1 before any tool is registered or any        *)
(* handler runs, so every request that is sent carries a non-empty         *)
(* credential.                                                             *)
C16_NoCredentialNoRun ==
    /\ (NoCredential /\ proc # "starting") =>
            /\ proc = "exited"
            /\ exitCode = Some(1)
            /\ registered = {}
            /\ pc = "idle"
            /\ tool = ""
            /\ requests = <<>>
            /\ result = None
    /\ \A i \in 1..Len(requests) :
            /\ ~NoCredential
            /\ requests[i].headers.Authorization = "AccessKey " \o env[1]

\* the variable is set but empty and the process has exited with status 1,
\* no tool registered
C16_Witness ==
    /\ env = Some("")
    /\ proc = "exited"
    /\ exitCode = Some(1)
    /\ registered = {}
    /\ requests = <<>>


\* the tools whose handler passes a body argument to apiRequest
BodyTools ==
    {"send_text", "send_media", "send_location", "send_template",
     "send_interactive_buttons", "send_interactive_list",
     "update_conversation", "reply_to_conversation",
     "create_template", "update_template",
     "create_contact", "update_contact"}

(* C17: every request carries Authorization: AccessKey <key> and Accept:   *)
(* application/json, and carries a JSON Content-Type header and a          *)
(* serialized body if and only if a body argument was passed, an empty     *)
(* object included.                                                        *)
C17_HeadersAndBody ==
    \A i \in 1..Len(requests) :
        LET r == requests[i]
        IN  /\ r.headers.Authorization = "AccessKey " \o API_KEY
            /\ r.headers.Accept = "application/json"
            /\ DOMAIN r.headers \subseteq
                    {"Authorization", "Accept", "ContentType"}
            /\ ("ContentType" \in DOMAIN r.headers) <=> (tool \in BodyTools)
            /\ (r.body # None) <=> (tool \in BodyTools)
            /\ ("ContentType" \in DOMAIN r.headers =>
                    r.headers.ContentType = "application/json")

\* update_contact with no field to change sends the empty object as body,
\* with the Content-Type header
C17_Witness ==
    /\ tool = "update_contact"
    /\ Len(requests) = 1
    /\ requests[1].body = Some([json |-> EmptyObject])
    /\ requests[1].headers.ContentType = "application/json"
    /\ requests[1].headers.Authorization = "AccessKey live_k3y"


\* the components array holds a body component carrying every value of the
\* parameters argument, in order
BodyCarriesParameters(components) ==
    \E i \in 1..Len(components) :
        /\ components[i].type = "body"
        /\ components[i].parameters =
              [j \in 1..Len(args.parameters) |->
                  [type |-> "text", text |-> args.parameters[j]]]

(* C18: in send_template, whenever parameters is non-empty and the         *)
(* components shape is used, the components array holds a body component   *)
(* that carries every parameter value in order.                            *)
C18_ParametersNeverDropped ==
    (/\ tool = "send_template"
     /\ requests # <<>>
     /\ "parameters" \in DOMAIN args
     /\ Len(args.parameters) > 0
     /\ "components" \in DOMAIN SentBody.content.hsm)
        => BodyCarriesParameters(SentBody.content.hsm.components)


\* the header component h fits its format: TEXT holds no example block and,
\* when header_text was given, that text; a media format holds no inline
\* text and, when header_example_url was given, that URL in an example block
HeaderFitsFormat(h) ==
    IF h.format = "TEXT"
    THEN /\ "example" \notin DOMAIN h
         /\ (("header_text" \in DOMAIN args /\ args.header_text # "")
                => ("text" \in DOMAIN h /\ h.text = args.header_text))
    ELSE /\ "text" \notin DOMAIN h
         /\ (("header_example_url" \in DOMAIN args
                    /\ args.header_example_url # "")
                => /\ "example" \in DOMAIN h
                   /\ h.example = [header_url |-> <<args.header_example_url>>])

(* C19: in create_template a TEXT header carries inline text and never an  *)
(* example media block, and an IMAGE, VIDEO or DOCUMENT header carries the *)
(* example URL in an example block and never inline text, for every        *)
(* combination of header_type, header_text and header_example_url.         *)
C19_HeaderMatchesFormat ==
    (tool = "create_template" /\ requests # <<>>) =>
        \A i \in 1..Len(SentBody.components) :
            SentBody.components[i].type = "HEADER"
                => HeaderFitsFormat(SentBody.components[i])


\* v is a property value that may be undefined (<<>>) and is a number
DefinedNumber(v) == v # None /\ v[1] \in Int

(* C20: every location message dispatched, by send_location or by          *)
(* reply_to_conversation with type location, has a content.location in     *)
(* which both latitude and longitude are present as numbers.               *)
C20_LocationHasCoordinates ==
    /\ (tool = "send_location" /\ requests # <<>>) =>
            LET location == SentBody.content.location
            IN  /\ {"latitude", "longitude"} \subseteq DOMAIN location
                /\ location.latitude \in Int
                /\ location.longitude \in Int
    /\ (tool = "reply_to_conversation" /\ requests # <<>>
            /\ args.type = "location") =>
            LET location == SentBody.content.location
            IN  /\ {"latitude", "longitude"} \subseteq DOMAIN location
                /\ DefinedNumber(location.latitude)
                /\ DefinedNumber(location.longitude)


\* the texts among the components arguments that are JSON
ComponentsJson == {"[]", "[{\"type\":\"BODY\",\"text\":\"Hi\"}]"}

MessageTypes == {"text", "image", "video", "audio", "file", "location"}

\* the handler has returned an error result and has sent nothing
RejectedWithoutDispatch ==
    /\ pc = "returned"
    /\ requests = <<>>
    /\ response = None
    /\ result # None
    /\ IsErrorResult(result[1])

(* C21: a handler that rejects its input returns an error result without   *)
(* any dispatch: update_template whose components is not valid JSON, and   *)
(* reply_to_conversation whose type is none of text, image, video, audio,  *)
(* file, location, end with isError true and zero requests sent.           *)
C21_RejectedInputNoDispatch ==
    /\ (tool = "update_template" /\ args.components \notin ComponentsJson)
            => RejectedWithoutDispatch
    /\ (tool = "reply_to_conversation" /\ args.type \notin MessageTypes)
            => RejectedWithoutDispatch

\* reply_to_conversation called with type "sticker" has answered with the
\* input error, nothing sent
C21_Witness ==
    /\ tool = "reply_to_conversation"
    /\ args.type = "sticker"
    /\ RejectedWithoutDispatch
    /\ ResultText(result[1]) = "Unsupported message type: sticker"


\* the place of a component type in the fixed order of a template
ComponentRank(type) ==
    CASE type = "HEADER" -> 1
      [] type = "BODY" -> 2
      [] type = "FOOTER" -> 3
      [] type = "BUTTONS" -> 4
      [] OTHER -> 0

(* C22: the components array create_template sends holds exactly one BODY  *)
(* and at most one each of HEADER, FOOTER and BUTTONS, in the order        *)
(* HEADER, BODY, FOOTER, BUTTONS; non-empty body examples are carried as a *)
(* single-element array whose element is the list of examples.             *)
C22_ComponentsOrdered ==
    (tool = "create_template" /\ requests # <<>>) =>
        LET components == SentBody.components
            n == Len(components)
        IN  /\ \A i \in 1..n : ComponentRank(components[i].type) > 0
            /\ \A i, j \in 1..n :
                  i < j => ComponentRank(components[i].type)
                              < ComponentRank(components[j].type)
            /\ Cardinality({i \in 1..n : components[i].type = "BODY"}) = 1
            /\ ("body_examples" \in DOMAIN args /\ Len(args.body_examples) > 0)
                  => \E i \in 1..n :
                        /\ components[i].type = "BODY"
                        /\ "example" \in DOMAIN components[i]
                        /\ components[i].example =
                              [body_text |-> <<args.body_examples>>]
                        /\ Len(components[i].example.body_text) = 1

\* all four components at once, with an example for the body
C22_Witness ==
    /\ tool = "create_template"
    /\ requests # <<>>
    /\ Len(SentBody.components) = 4
    /\ SentBody.components[1].type = "HEADER"
    /\ SentBody.components[2].type = "BODY"
    /\ "example" \in DOMAIN SentBody.components[2]
    /\ SentBody.components[2].example = [body_text |-> << <<"John">> >>]
    /\ SentBody.components[3].type = "FOOTER"
    /\ SentBody.components[4].type = "BUTTONS"


\* the place of a component type in the fixed order of a template message
HsmRank(type) ==
    CASE type = "header" -> 1
      [] type = "body" -> 2
      [] type = "button" -> 3
      [] OTHER -> 0

\* the components array of the hsm object sent, empty when it has none
SentComponents ==
    IF "components" \in DOMAIN SentBody.content.hsm
    THEN SentBody.content.hsm.components ELSE <<>>

\* the header parameter the supplied header URLs call for: image before
\* video before document
HeaderByPriority ==
    IF "header_image_url" \in DOMAIN args
    THEN <<[type |-> "image", image |-> [url |-> args.header_image_url]]>>
    ELSE IF "header_video_url" \in DOMAIN args
    THEN <<[type |-> "video", video |-> [url |-> args.header_video_url]]>>
    ELSE IF "header_document_url" \in DOMAIN args
    THEN <<[type |-> "document",
            document |-> [url |-> args.header_document_url]]>>
    ELSE <<>>

(* C23: the components array send_template sends holds at most one header, *)
(* chosen by priority image, video, document among the header URLs         *)
(* supplied, and its components are in the order header, body, button.     *)
C23_HeaderByPriority ==
    (tool = "send_template" /\ requests # <<>>) =>
        LET n == Len(SentComponents)
            headers == {i \in 1..n : SentComponents[i].type = "header"}
        IN  /\ \A i \in 1..n : HsmRank(SentComponents[i].type) > 0
            /\ \A i, j \in 1..n :
                  i < j => HsmRank(SentComponents[i].type)
                              < HsmRank(SentComponents[j].type)
            /\ Cardinality(headers) <= 1
            /\ IF HeaderByPriority = <<>> THEN headers = {}
               ELSE /\ headers = {1}
                    /\ SentComponents[1].parameters = HeaderByPriority

\* the three header URLs supplied at once: the image is the header, and the
\* body and the button follow it
C23_Witness ==
    /\ tool = "send_template"
    /\ requests # <<>>
    /\ {"header_image_url", "header_video_url", "header_document_url"}
            \subseteq DOMAIN args
    /\ Len(SentComponents) = 3
    /\ SentComponents[1].type = "header"
    /\ SentComponents[1].parameters[1].type = "image"
    /\ SentComponents[2].type = "body"
    /\ SentComponents[3].type = "button"


(* C24: a tool registered with readOnlyHint true issues only GET requests, *)
(* a tool registered with destructiveHint true issues only DELETE          *)
(* requests, and no tool with destructiveHint false issues a DELETE.       *)
C24_HintsMatchMethods ==
    \A i \in 1..Len(requests) :
        /\ readOnlyHint(tool) => requests[i].method = "GET"
        /\ destructiveHint(tool) => requests[i].method = "DELETE"
        /\ ~destructiveHint(tool) => requests[i].method # "DELETE"

\* a destructive tool of the template family has sent its DELETE
C24_Witness ==
    /\ tool = "delete_template_variant"
    /\ destructiveHint(tool)
    /\ ~readOnlyHint(tool)
    /\ Len(requests) = 1
    /\ requests[1].method = "DELETE"


\* the argument f is absent or the empty string
Unusable(f) == f \notin DOMAIN args \/ args[f] = ""

(* C25: get_contact invoked with contact_id, msisdn and name all absent or *)
(* empty still dispatches: it sends GET /contacts on the REST service with *)
(* no query string, and returns no input error.                            *)
C25_NoIdentifierListsAll ==
    (/\ tool = "get_contact"
     /\ pc # "idle"
     /\ Unusable("contact_id") /\ Unusable("msisdn") /\ Unusable("name"))
        => /\ Len(requests) = 1
           /\ requests[1].method = "GET"
           /\ requests[1].url = "https://rest.messagebird.com/contacts"
           /\ QuestionMarks(requests[1].url) = 0
           /\ requests[1].body = None
           /\ (pc = "returned" =>
                 (response # None \/ raised # None))

\* three empty strings, and the unfiltered list came back as a success
C25_Witness ==
    /\ tool = "get_contact"
    /\ args = [contact_id |-> "", msisdn |-> "", name |-> ""]
    /\ Len(requests) = 1
    /\ requests[1].url = "https://rest.messagebird.com/contacts"
    /\ Answered
    /\ response[1].status = 200
    /\ IsSuccessResult(result[1])


\* button_value was supplied and is not empty
HasButtonValue == "button_value" \in DOMAIN args /\ args.button_value # ""

\* the BUTTONS component c holds the one button the arguments describe
OneButtonAsAsked(c) ==
    /\ Len(c.buttons) = 1
    /\ LET b == c.buttons[1]
       IN  /\ b.type = args.button_type
           /\ b.text = args.button_text
           /\ ("phone_number" \in DOMAIN b)
                  <=> (args.button_type = "PHONE_NUMBER" /\ HasButtonValue)
           /\ ("phone_number" \in DOMAIN b
                  => b.phone_number = args.button_value)
           /\ ("url" \in DOMAIN b)
                  <=> (args.button_type = "URL" /\ HasButtonValue)
           /\ ("url" \in DOMAIN b => b.url = args.button_value)
           /\ (args.button_type = "QUICK_REPLY"
                  => DOMAIN b = {"type", "text"})

(* C26: create_template emits a BUTTONS component if and only if           *)
(* button_type and button_text are both supplied non-empty; it then holds  *)
(* exactly one button, with phone_number only for PHONE_NUMBER with a      *)
(* value, url only for URL with a value, neither for QUICK_REPLY; with     *)
(* button_type and no button_text there is no BUTTONS component and the    *)
(* request is still dispatched.                                            *)
C26_ButtonsIffTypeAndText ==
    (tool = "create_template" /\ pc # "idle") =>
        /\ Len(requests) = 1
        /\ LET components == SentBody.components
               blocks == {i \in 1..Len(components) :
                            components[i].type = "BUTTONS"}
           IN  /\ (blocks # {})
                    <=> (/\ "button_type" \in DOMAIN args
                         /\ "button_text" \in DOMAIN args
                         /\ args.button_text # "")
               /\ \A i \in blocks : OneButtonAsAsked(components[i])

\* a PHONE_NUMBER button with its text and number is the one button sent
C26_Witness ==
    /\ tool = "create_template"
    /\ Len(requests) = 1
    /\ "button_type" \in DOMAIN args /\ args.button_type = "PHONE_NUMBER"
    /\ Len(SentBody.components) = 2
    /\ SentBody.components[2] =
          [type |-> "BUTTONS",
           buttons |-> <<[type |-> "PHONE_NUMBER", text |-> "Go",
                          phone_number |-> "+3161234"]>>]

====
